---- MODULE Spec2Model ----
(***************************************************************************)
(* A model of the query execution machinery of dwgrep (libzwerg): the      *)
(* operand stack with its cached profile, origins, and the operators of    *)
(* op.cc, driven by a consumer that calls reset(), set_next() and next().  *)
(***************************************************************************)
EXTENDS Integers, Sequences, FiniteSets, TLC

\* ----------------------------------------------------------------- bounds
\* Deepest stack the stack specification builds (more than W, so that a
\* value below the profile window comes back into it on pop).
MaxDepth == 5
\* Number of distinct type codes the stack specification pushes.
MaxCode == 3

\* ------------------------------------------------------------- constants
\* selector::W, the number of type codes a profile holds.
W == 4
\* Type codes value_type::alloc hands out (distinct, non-zero, 8 bits).
T_CONST == 1
T_STR == 2
T_SEQ == 3
T_CLOSURE == 4
T_NODE == 5
T_ATTR == 6

Null == [null |-> TRUE]

VARIABLES
  stk,        \* SpecStack: the stack under test, [m_values, m_profile]
  stk_err,    \* SpecStack: TRUE once need() has thrown
  stk_op      \* SpecStack: the last operation called on stk

stackVars == <<stk, stk_err, stk_op>>

VARIABLES
  cfg,        \* how the operator under test was constructed (never changes)
  op,         \* the fields of the operator under test and of its sub-operators
  input,      \* the stack the consumer last primed the upstream origin with
  out,        \* the stacks next () has returned since the last priming
  phase,      \* "new", "run" (primed, not yet null) or "drained" (returned null)
  drains      \* had next () returned null when the operator was last reset and primed

opVars == <<cfg, op, input, out, phase, drains>>

VARIABLES
  prod,       \* the value producer elem was last handed (Null before), with
              \* the stack it was made from and whether it has returned null
  elems       \* the values prod has returned

elemVars == <<prod, elems>>

vars == <<stackVars, opVars, elemVars>>

\* ------------------------------------------------------------------ stack
\* A profile is a W-byte word, kept as its bytes, lowest byte first.
ZeroProfile == [d \in 1..W |-> 0]

\* m_profile <<= 8 in a W-byte word: the highest byte is shifted out.
ShiftLeft8(p) == [d \in 1..W |-> IF d = 1 THEN 0 ELSE p[d - 1]]

\* m_profile >>= 8: the lowest byte is shifted out, zero comes in on top.
ShiftRight8(p) == [d \in 1..W |-> IF d = W THEN 0 ELSE p[d + 1]]

RECURSIVE BitOr(_, _)
\* Bitwise or of two naturals.
BitOr(a, b) ==
  IF a = 0 THEN b
  ELSE IF b = 0 THEN a
  ELSE (IF a % 2 = 1 \/ b % 2 = 1 THEN 1 ELSE 0) + 2 * BitOr(a \div 2, b \div 2)

\* m_profile |= code << (8 * d0), d0 counted from 0.
OrByte(p, d0, code) == [p EXCEPT ![d0 + 1] = BitOr(@, code)]

\* A new stack; m_frame is the id of its frame, NoFrame for nullptr.
NoFrame == 0

EmptyStack == [m_values |-> <<>>, m_profile |-> ZeroProfile, m_frame |-> NoFrame]

Size(s) == Len(s.m_values)

\* stack::need: does the stack hold depth values (else it throws).
Need(s, depth) == depth <= Size(s)

\* stack::get (depth): the value depth places below TOS.
Get(s, depth) == s.m_values[Size(s) - depth]

Top(s) == Get(s, 0)

Push(s, v) ==
  [s EXCEPT !.m_values = Append(@, v),
            !.m_profile = OrByte(ShiftLeft8(@), 0, v.type)]

\* pop () without the refill of the highest byte of the profile.
PopNoRefill(s) ==
  [s EXCEPT !.m_values = SubSeq(@, 1, Len(@) - 1),
            !.m_profile = ShiftRight8(@)]

\* The stack pop () leaves behind; the popped value is Top (s).
Pop(s) ==
  LET vals == SubSeq(s.m_values, 1, Size(s) - 1)
      shifted == ShiftRight8(s.m_profile)
  IN [s EXCEPT !.m_values = vals,
               !.m_profile =
                  IF Len(vals) >= W
                    THEN OrByte(shifted, W - 1, vals[Len(vals) - (W - 1)].type)
                    ELSE shifted]

RECURSIVE DropProfile(_, _, _)
\* The loop of drop (): or the codes of the top values into a zero profile.
DropProfile(vals, d, p) ==
  IF d < W /\ d < Len(vals)
    THEN DropProfile(vals, d + 1, OrByte(p, d, vals[Len(vals) - d].type))
    ELSE p

Drop(s, n) ==
  LET vals == SubSeq(s.m_values, 1, Size(s) - n)
  IN [s EXCEPT !.m_values = vals,
               !.m_profile = DropProfile(vals, 0, ZeroProfile)]

\* ------------------------------------------------- SpecStack: push/pop/drop
Codes == 1..MaxCode

StackValue(c) == [type |-> c, val |-> 0, pos |-> 0]

\* An unsigned of 32 bits as two halves of 16 bits, the higher one first.
Half == 65536

UInt(n) == [hi |-> n \div Half, lo |-> n % Half]

UIntMax == [hi |-> Half - 1, lo |-> Half - 1]

\* u + 1 in unsigned arithmetic: the carry out of the higher half is lost.
UIntInc(u) ==
  IF u.lo = Half - 1
    THEN [hi |-> (u.hi + 1) % Half, lo |-> 0]
    ELSE [u EXCEPT !.lo = @ + 1]

\* The number an unsigned below 2^31 stands for.
UIntVal(u) == u.hi * Half + u.lo

\* The last call on stk: its name, its argument and how it ended ("ok",
\* "thrown" by need (), or past the end of m_values: "wild" when the read
\* returned whatever was there, "crash" when it ended the process).
StackCall(name, arg, res) == [name |-> name, arg |-> arg, res |-> res]

StackInit ==
  /\ stk = EmptyStack
  /\ stk_err = FALSE
  /\ stk_op = StackCall("new", UInt(0), "ok")
  /\ cfg = Null /\ op = Null /\ input = Null
  /\ out = <<>> /\ phase = "off" /\ drains = FALSE
  /\ prod = Null /\ elems = <<>>

StackPush ==
  /\ ~stk_err
  /\ Size(stk) < MaxDepth
  /\ \E c \in Codes : stk' = Push(stk, StackValue(c))
  /\ stk_op' = StackCall("push", UInt(0), "ok")
  /\ UNCHANGED stk_err

StackPop ==
  /\ ~stk_err
  /\ IF Need(stk, 1)
       THEN /\ stk' = Pop(stk)
            /\ stk_op' = StackCall("pop", UInt(0), "ok")
            /\ UNCHANGED stk_err
       ELSE /\ stk_err' = TRUE
            /\ stk_op' = StackCall("pop", UInt(0), "thrown")
            /\ UNCHANGED stk

StackDrop ==
  /\ ~stk_err
  /\ \E n \in 0..MaxDepth :
       IF Need(stk, n)
         THEN /\ stk' = Drop(stk, n)
              /\ stk_op' = StackCall("drop", UInt(n), "ok")
              /\ UNCHANGED stk_err
         ELSE /\ stk_err' = TRUE
              /\ stk_op' = StackCall("drop", UInt(n), "thrown")
              /\ UNCHANGED stk

StackTop ==
  /\ ~stk_err
  /\ UNCHANGED stk
  /\ stk_err' = ~Need(stk, 1)
  /\ stk_op' = StackCall("top", UInt(0), IF Need(stk, 1) THEN "ok" ELSE "thrown")

\* get (depth): need (depth + 1) with depth + 1 computed in unsigned, then
\* the read of *(rbegin () + depth), which is past the end of m_values when
\* need () let a depth of Size (stk) or more through.
StackGet ==
  /\ ~stk_err
  /\ UNCHANGED stk
  /\ \E d \in {UInt(n) : n \in 0..MaxDepth} \cup {UIntMax} :
       \E res \in {"ok", "thrown", "wild", "crash"} :
         /\ res = "thrown" <=> ~Need(stk, UIntVal(UIntInc(d)))
         /\ res = "ok" <=> d.hi = 0 /\ Need(stk, d.lo + 1)
         /\ stk_err' = (res \in {"thrown", "crash"})
         /\ stk_op' = StackCall("get", d, res)

StackNext ==
  (StackPush \/ StackPop \/ StackDrop \/ StackTop \/ StackGet)
    /\ UNCHANGED <<opVars, elemVars>>

SpecStack == StackInit /\ [][StackNext]_vars

\* The type codes of the top W values, TOS in the lowest byte, zero-padded.
ProfileOf(vals) ==
  [d \in 1..W |-> IF d <= Len(vals) THEN vals[Len(vals) - (d - 1)].type ELSE 0]

\* C4: after any sequence of push, pop and drop the cached profile of the
\* stack is the concatenation of the type codes of its top W values, TOS in
\* the lowest byte, zero-padded when the stack is shallower than W.
C4_ProfileMatchesTop == stk.m_profile = ProfileOf(stk.m_values)

\* A stack deeper than W that pop () has brought back to exactly W values,
\* of which the deepest in the window differs from TOS.
C4_Witness ==
  /\ stk_op.name = "pop"
  /\ ~stk_err
  /\ Size(stk) = W
  /\ stk.m_profile[W] # stk.m_profile[1]
  /\ stk.m_profile[W] # 0

\* The values the last call needs are more than the stack held: one for pop
\* and top, depth + 1 for get (depth), n for drop (n).
Underflow(call, s) ==
  CASE call.name \in {"pop", "top"} -> Size(s) < 1
    [] call.name = "get" -> call.arg.hi > 0 \/ call.arg.lo >= Size(s)
    [] call.name = "drop" -> call.arg.hi > 0 \/ call.arg.lo > Size(s)
    [] OTHER -> FALSE

NodeValue(n, pos) == [type |-> T_NODE, val |-> n, pos |-> pos]

SeqValue(vv, pos) == [type |-> T_SEQ, val |-> vv, pos |-> pos]

RECURSIVE StripPos(_)
\* What cmp looks at: the variant and the payload, not the position.
StripPos(v) ==
  IF v.type = T_SEQ
    THEN [type |-> v.type, val |-> [i \in DOMAIN v.val |-> StripPos(v.val[i])]]
    ELSE [type |-> v.type, val |-> v.val]

\* The key under which a stack is compared (stack::operator<): its values,
\* pairwise, by cmp.
StackKey(s) == [i \in DOMAIN s.m_values |-> StripPos(s.m_values[i])]

\* A stack holding the values vv, built by pushing them in order.
RECURSIVE StackOf(_)
StackOf(vv) ==
  IF vv = <<>> THEN EmptyStack
  ELSE Push(StackOf(SubSeq(vv, 1, Len(vv) - 1)), vv[Len(vv)])

\* ------------------------------------------------------------ DIE graphs
\* Number of DIEs of the graphs the child operators walk (the graph "deep"
\* has DIEs of its own).
MaxNode == 3

Node == 1..MaxNode

GraphIds == {"tree", "dag", "cycle", "loop", "wide", "none"}

Within(nn) == SelectSeq(nn, LAMBDA n : n \in Node)

\* A tree of DIEs deeper than the graphs above: DIE 2 has the children 4
\* and 5, 4 the child 6, 5 the child 7, and 7 the child 8.
DeepChildren(n) ==
  CASE n = 2 -> <<4, 5>>
    [] n = 4 -> <<6>>
    [] n = 5 -> <<7>>
    [] n = 7 -> <<8>>
    [] OTHER -> <<>>

\* The children of DIE n in graph g, in sibling order (dwarf_child, then
\* dwarf_siblingof until it reports no more siblings).
Children(g, n) ==
  CASE g = "tree" -> Within(<<2 * n, 2 * n + 1>>)
    [] g = "dag" -> Within(<<n + 1, n + 2>>)
    [] g = "cycle" -> <<(n % MaxNode) + 1>>
    [] g = "loop" -> Within(<<n, n + 1>>)
    [] g = "wide" -> IF n % 2 = 0 THEN Within(<<n - 1, n + 1>>) ELSE <<>>
    [] g = "deep" -> DeepChildren(n)
    [] OTHER -> <<>>

\* ----------------------------------------------------------------- origin
\* op_origin: the slot and the flag that a reset has come through.
NewOrigin == [m_stk |-> Null, m_reset |-> FALSE, failed |-> FALSE]

\* op_origin::next: hands the slot out and leaves it empty.
OriginNext(o) == [st |-> [o EXCEPT !.m_stk = Null], ret |-> o.m_stk]

\* op_origin::set_next; failed records that one of its two assertions did
\* not hold.
OriginSetNext(o, s) ==
  [m_stk |-> s, m_reset |-> FALSE,
   failed |-> o.failed \/ o.m_stk # Null \/ ~o.m_reset]

\* op_origin::reset without clearing the slot.
OriginResetKeepSlot(o) == [o EXCEPT !.m_reset = TRUE]

OriginReset(o) == [o EXCEPT !.m_stk = Null, !.m_reset = TRUE]

\* ------------------------------------------------------------------ child
\* The child operator: m_vf is the stack being expanded, m_child the DIE the
\* next result carries (the parent and the index among its children), m_pos
\* the position of that result.
NewChild(g) == [m_gr |-> g, m_vf |-> Null, m_child |-> <<0, 0>>, m_pos |-> 0]

ChildResetMe(c) == [c EXCEPT !.m_vf = Null, !.m_pos = 0]

\* A sub-expression: an origin and the child operator on top of it.
NewSub(g) == [org |-> NewOrigin, ch |-> NewChild(g)]

\* child::next, the body of its inner loop for a stack vf the upstream
\* handed over: TOS is popped; if it is a DIE with children, vf becomes m_vf
\* and the first child m_child; else vf is dropped.
ChildAccept(c, vf) ==
  LET vp == Top(vf)
  IN IF vp.type = T_NODE /\ Children(c.m_gr, vp.val) # <<>>
       THEN [c EXCEPT !.m_vf = Pop(vf), !.m_child = <<vp.val, 1>>]
       ELSE c

\* child::next once m_vf is set: a copy of m_vf with m_child pushed at
\* position m_pos; m_child moves to its sibling, or reset_me after the last.
ChildEmit(c) ==
  LET kids == Children(c.m_gr, c.m_child[1])
      stepped == [c EXCEPT !.m_pos = @ + 1]
  IN [st |-> IF c.m_child[2] = Len(kids)
               THEN ChildResetMe(stepped)
               ELSE [stepped EXCEPT !.m_child = <<c.m_child[1], c.m_child[2] + 1>>],
      ret |-> Push(c.m_vf, NodeValue(kids[c.m_child[2]], c.m_pos))]

RECURSIVE SubNext(_)
\* child::next with the origin as its upstream.
SubNext(sub) ==
  IF sub.ch.m_vf = Null
    THEN LET o == OriginNext(sub.org)
         IN IF o.ret = Null
              THEN [st |-> [sub EXCEPT !.org = o.st], ret |-> Null]
              ELSE SubNext([org |-> o.st, ch |-> ChildAccept(sub.ch, o.ret)])
    ELSE LET e == ChildEmit(sub.ch)
         IN [st |-> [sub EXCEPT !.ch = e.st], ret |-> e.ret]

\* child::reset: reset_me, then the upstream's reset.
SubReset(sub) == [org |-> OriginReset(sub.org), ch |-> ChildResetMe(sub.ch)]

\* What every caller does before it drives a sub-expression again:
\* m_op->reset (); m_origin->set_next (s).
SubPrime(sub, s) ==
  LET r == SubReset(sub) IN [r EXCEPT !.org = OriginSetNext(r.org, s)]

\* Fuel of the loops that drain an operator (more than any enumeration of
\* the model yields).
MaxPull == 12

RECURSIVE SubDrain(_, _, _)
SubDrain(sub, acc, fuel) ==
  LET r == SubNext(sub)
  IN IF r.ret = Null \/ fuel = 0 THEN acc
     ELSE SubDrain(r.st, Append(acc, r.ret), fuel - 1)

\* All results of the child operator of graph g on the stack s, in order.
SubResults(g, s) == SubDrain(SubPrime(NewSub(g), s), <<>>, MaxPull)

RECURSIVE SubDrainAll(_, _, _)
\* while (auto stk2 = m_op->next ()) ...: the operator once it returned null,
\* and what it returned before.
SubDrainAll(sub, acc, fuel) ==
  LET r == SubNext(sub)
  IN IF r.ret = Null \/ fuel = 0 THEN [st |-> r.st, rets |-> acc]
     ELSE SubDrainAll(r.st, Append(acc, r.ret), fuel - 1)

\* --------------------------------------------------------------------- Or
\* op_or over the branches of the graphs gs; m_branch_it is the index of the
\* branch being emitted, Len (branches) + 1 for m_branches.end ().
NewOr(gu, gs) ==
  [up |-> NewSub(gu),
   branches |-> [i \in DOMAIN gs |-> NewSub(gs[i])],
   m_branch_it |-> Len(gs) + 1]

OrResetMe(o) ==
  [o EXCEPT !.m_branch_it = Len(o.branches) + 1,
            !.branches = [i \in DOMAIN @ |-> SubReset(@[i])]]

OrReset(o) == [OrResetMe(o) EXCEPT !.up = SubReset(@)]

RECURSIVE OrNext(_)
RECURSIVE OrTryAll(_, _, _)
\* The for loop without the return at the first result: every branch is
\* primed and asked, the last one that yields is the one emitted.
OrTryAll(o, s, it) ==
  IF it > Len(o.branches)
    THEN IF o.m_branch_it = Len(o.branches) + 1
           THEN OrNext(o)
           ELSE [st |-> [o EXCEPT !.branches[o.m_branch_it] =
                                    SubNext(SubPrime(@, s)).st],
                 ret |-> SubNext(SubPrime(o.branches[o.m_branch_it], s)).ret]
    ELSE LET r == SubNext(SubPrime(o.branches[it], s))
             o2 == [o EXCEPT !.branches[it] = r.st,
                             !.m_branch_it = IF r.ret # Null THEN it ELSE @]
         IN OrTryAll(o2, s, it + 1)

RECURSIVE OrTry(_, _, _)
\* The for loop of op_or::next over the branches, from branch it on, for the
\* upstream stack s.
OrTry(o, s, it) ==
  IF it > Len(o.branches)
    THEN OrNext([o EXCEPT !.m_branch_it = it])
    ELSE LET r == SubNext(SubPrime(o.branches[it], s))
             o2 == [o EXCEPT !.branches[it] = r.st, !.m_branch_it = it]
         IN IF r.ret # Null
              THEN [st |-> o2, ret |-> r.ret]
              ELSE OrTry(o2, s, it + 1)

OrNext(o) ==
  IF o.m_branch_it = Len(o.branches) + 1
    THEN LET u == SubNext(o.up)
         IN IF u.ret = Null
              THEN [st |-> [o EXCEPT !.up = u.st], ret |-> Null]
              ELSE OrTry([o EXCEPT !.up = u.st], u.ret, 1)
    ELSE LET r == SubNext(o.branches[o.m_branch_it])
             o2 == [o EXCEPT !.branches[o.m_branch_it] = r.st]
         IN IF r.ret # Null
              THEN [st |-> o2, ret |-> r.ret]
              ELSE OrNext(OrResetMe(o2))

\* ----------------------------------------------------------------- IfElse
\* op_ifelse; m_sel names the selected branch ("none" for nullptr).
NewIfElse(gu, gc, gt, ge) ==
  [up |-> NewSub(gu), cond |-> NewSub(gc), thn |-> NewSub(gt),
   els |-> NewSub(ge), m_sel |-> "none"]

IfElseResetMe(o) == [o EXCEPT !.m_sel = "none"]

IfElseReset(o) == [IfElseResetMe(o) EXCEPT !.up = SubReset(@)]

\* The then branch whatever cond yielded.
IfElseSelectThen(c) == "thn"

\* The branch op_ifelse::next selects once cond has answered with c.
IfElseSelect(c) == IF c # Null THEN "thn" ELSE "els"

RECURSIVE IfElseNext(_)
IfElseNext(o) ==
  IF o.m_sel = "none"
    THEN LET u == SubNext(o.up)
         IN IF u.ret = Null
              THEN [st |-> [o EXCEPT !.up = u.st], ret |-> Null]
              ELSE LET c == SubNext(SubPrime(o.cond, u.ret))
                       sel == IfElseSelect(c.ret)
                   IN IfElseNext([o EXCEPT !.up = u.st,
                                           !.cond = c.st,
                                           !.m_sel = sel,
                                           ![sel] = SubPrime(@, u.ret)])
    ELSE LET r == SubNext(o[o.m_sel])
             o2 == [o EXCEPT ![o.m_sel] = r.st]
         IN IF r.ret # Null
              THEN [st |-> o2, ret |-> r.ret]
              ELSE IfElseNext(IfElseResetMe(o2))

\* ------------------------------------------------------------------- SubX
NewSubX(gu, gi, keep) ==
  [up |-> NewSub(gu), inner |-> NewSub(gi), m_stk |-> Null, m_keep |-> keep]

SubXResetMe(o) == [o EXCEPT !.m_stk = Null]

SubXReset(o) == [SubXResetMe(o) EXCEPT !.up = SubReset(@)]

RECURSIVE PopKept(_, _)
\* The first loop of op_subx::next: the values keep pops take off s, the
\* first popped (TOS) first.
PopKept(s, keep) ==
  IF keep = 0 THEN <<>> ELSE <<Top(s)>> \o PopKept(Pop(s), keep - 1)

RECURSIVE PushKeptFront(_, _)
\* The second loop pushing from the front of kept.
PushKeptFront(ret, kept) ==
  IF kept = <<>> THEN ret
  ELSE PushKeptFront(Push(ret, Head(kept)), Tail(kept))

RECURSIVE PushKept(_, _)
\* The second loop: push kept.back (), pop it off kept, until kept is empty.
PushKept(ret, kept) ==
  IF kept = <<>> THEN ret
  ELSE PushKept(Push(ret, kept[Len(kept)]), SubSeq(kept, 1, Len(kept) - 1))

RECURSIVE SubXNext(_)
SubXNext(o) ==
  IF o.m_stk = Null
    THEN LET u == SubNext(o.up)
         IN IF u.ret = Null
              THEN [st |-> [o EXCEPT !.up = u.st], ret |-> Null]
              ELSE SubXNext([o EXCEPT !.up = u.st,
                                      !.m_stk = u.ret,
                                      !.inner = SubPrime(@, u.ret)])
    ELSE LET r == SubNext(o.inner)
             o2 == [o EXCEPT !.inner = r.st]
         IN IF r.ret # Null
              THEN [st |-> o2,
                    ret |-> PushKept(o.m_stk, PopKept(r.ret, o.m_keep))]
              ELSE SubXNext(SubXResetMe(o2))

\* ---------------------------------------------------------------- Capture
NewCapture(gu, gi) == [up |-> NewSub(gu), inner |-> NewSub(gi)]

CaptureReset(o) == [up |-> SubReset(o.up), inner |-> SubReset(o.inner)]

\* A collection that keeps the TOS of the last result only.
CollectedLast(rets) ==
  IF rets = <<>> THEN <<>> ELSE <<Top(rets[Len(rets)])>>

\* The sequence op_capture::next collects: the TOS of every result.
Collected(rets) == [i \in DOMAIN rets |-> Top(rets[i])]

CaptureNext(o) ==
  LET u == SubNext(o.up)
  IN IF u.ret = Null
       THEN [st |-> [o EXCEPT !.up = u.st], ret |-> Null]
       ELSE LET d == SubDrainAll(SubPrime(o.inner, u.ret), <<>>, MaxPull)
            IN [st |-> [up |-> u.st, inner |-> d.st],
                ret |-> Push(u.ret, SeqValue(Collected(d.rets), 0))]

\* -------------------------------------------------------------- TrClosure
\* op_tr_closure: m_stks is the worklist (back is taken first), m_seen the
\* keys of the stacks yielded for the current upstream stack.
NewTrClosure(gu, gi, plus) ==
  [up |-> NewSub(gu), inner |-> NewSub(gi), m_is_plus |-> plus,
   m_op_drained |-> TRUE, m_stks |-> <<>>, m_seen |-> {}]

\* yield_and_cache putting the stack at the front of the worklist.
TrYieldAndCacheFront(o, s) ==
  IF StackKey(s) \notin o.m_seen
    THEN [st |-> [o EXCEPT !.m_seen = @ \cup {StackKey(s)},
                           !.m_stks = <<s>> \o @],
          ret |-> s]
    ELSE [st |-> o, ret |-> Null]

\* yield_and_cache that yields every stack, seen before or not.
TrYieldAndCacheNoSeen(o, s) ==
  [st |-> [o EXCEPT !.m_seen = @ \cup {StackKey(s)}, !.m_stks = Append(@, s)],
   ret |-> s]

TrYieldAndCache(o, s) ==
  IF StackKey(s) \notin o.m_seen
    THEN [st |-> [o EXCEPT !.m_seen = @ \cup {StackKey(s)},
                           !.m_stks = Append(@, s)],
          ret |-> s]
    ELSE [st |-> o, ret |-> Null]

TrNextFromUpstream(o) ==
  LET u == SubNext(o.up)
  IN [st |-> [o EXCEPT !.m_seen = {}, !.up = u.st], ret |-> u.ret]

TrNextFromOp(o) ==
  IF o.m_op_drained
    THEN [st |-> o, ret |-> Null]
    ELSE LET r == SubNext(o.inner)
         IN IF r.ret # Null
              THEN [st |-> [o EXCEPT !.inner = r.st], ret |-> r.ret]
              ELSE [st |-> [o EXCEPT !.inner = r.st, !.m_op_drained = TRUE],
                    ret |-> Null]

\* send_to_op (stk): FALSE for a null stack, else the inner operator is
\* reset and primed with it.
TrSendStackToOp(o, s) ==
  IF s = Null
    THEN [st |-> o, ok |-> FALSE]
    ELSE [st |-> [o EXCEPT !.inner = SubPrime(@, s), !.m_op_drained = FALSE],
          ok |-> TRUE]

\* send_to_op () taking the front of the worklist.
TrSendToOpFront(o) ==
  IF o.m_stks = <<>>
    THEN IF o.m_is_plus
           THEN LET u == TrNextFromUpstream(o) IN TrSendStackToOp(u.st, u.ret)
           ELSE [st |-> o, ok |-> FALSE]
    ELSE LET sent == TrSendStackToOp(o, o.m_stks[1])
         IN [st |-> [sent.st EXCEPT !.m_stks = Tail(@)], ok |-> TRUE]

\* send_to_op (): the next stack of the worklist, or for plus the next
\* upstream stack, goes to the inner operator.
TrSendToOp(o) ==
  IF o.m_stks = <<>>
    THEN IF o.m_is_plus
           THEN LET u == TrNextFromUpstream(o) IN TrSendStackToOp(u.st, u.ret)
           ELSE [st |-> o, ok |-> FALSE]
    ELSE LET sent == TrSendStackToOp(o, o.m_stks[Len(o.m_stks)])
         IN [st |-> [sent.st EXCEPT !.m_stks = SubSeq(@, 1, Len(@) - 1)],
             ok |-> TRUE]

RECURSIVE TrNextLoop(_, _)
\* The do-while of op_tr_closure::next and what follows it.
TrNextLoop(o, fuel) ==
  LET r == TrNextFromOp(o)
  IN IF fuel = 0 THEN [st |-> o, ret |-> Null]
     ELSE IF r.ret # Null
       THEN LET y == TrYieldAndCache(r.st, r.ret)
            IN IF y.ret # Null THEN y ELSE TrNextLoop(y.st, fuel - 1)
       ELSE LET sent == TrSendToOp(r.st)
            IN IF sent.ok
                 THEN TrNextLoop(sent.st, fuel - 1)
                 ELSE IF ~o.m_is_plus
                        THEN LET u == TrNextFromUpstream(sent.st)
                             IN IF u.ret # Null
                                  THEN TrYieldAndCache(u.st, u.ret)
                                  ELSE u
                        ELSE [st |-> sent.st, ret |-> Null]

\* Steps one call of op_tr_closure::next may take before it is cut off.
MaxSteps == 40

TrNext(o) == TrNextLoop(o, MaxSteps)

RECURSIVE TrTurns(_, _)
\* The turns the loops of op_tr_closure::next take in one call, counted up
\* to fuel: a stack of the inner operator that was seen before, or a stack
\* sent to the inner operator, is one turn.
TrTurns(o, fuel) ==
  LET r == TrNextFromOp(o)
  IN IF fuel = 0 THEN 0
     ELSE IF r.ret # Null
       THEN LET y == TrYieldAndCache(r.st, r.ret)
            IN IF y.ret # Null THEN 1 ELSE 1 + TrTurns(y.st, fuel - 1)
       ELSE LET sent == TrSendToOp(r.st)
            IN IF sent.ok THEN 1 + TrTurns(sent.st, fuel - 1) ELSE 1

TrResetMe(o) == [o EXCEPT !.m_stks = <<>>, !.m_seen = {}]

TrReset(o) == [TrResetMe(o) EXCEPT !.up = SubReset(@)]

\* ------------------------------------------------------------------ apply
\* An upstream that is any operator at all: q holds the stacks its next ()
\* is going to return, in order, before it returns null.
NewFeed(q) == [q |-> q]

FeedNext(up) ==
  IF up.q = <<>> THEN [st |-> up, ret |-> Null]
  ELSE [st |-> [up EXCEPT !.q = Tail(@)], ret |-> Head(up.q)]

\* m_upstream->next (): of a feed, or of the child operator on an origin.
UpNext(up) == IF "q" \in DOMAIN up THEN FeedNext(up) ELSE SubNext(up)

\* ------------------------------------------------------------ Tine, Merge
\* op_merge over the branches of the graphs gs, each a child operator on
\* its op_tine; the tines share m_file, m_done and the upstream; m_it is the
\* index of the branch op_merge asks next.
NewMerge(gu, gs) ==
  [up |-> NewSub(gu),
   m_file |-> [k \in DOMAIN gs |-> Null],
   m_done |-> FALSE,
   chs |-> [k \in DOMAIN gs |-> NewChild(gs[k])],
   m_it |-> 1]

\* op_tine::next of peer k pulling from upstream whenever its own slot is
\* empty.
TineNextGreedy(mg, k) ==
  IF mg.m_done
    THEN [st |-> mg, ret |-> Null]
    ELSE IF mg.m_file[k] = Null
      THEN LET u == SubNext(mg.up)
           IN IF u.ret # Null
                THEN [st |-> [mg EXCEPT !.up = u.st,
                                        !.m_file = [[j \in DOMAIN @ |-> u.ret]
                                                      EXCEPT ![k] = Null]],
                      ret |-> u.ret]
                ELSE [st |-> [mg EXCEPT !.up = u.st, !.m_done = TRUE],
                      ret |-> Null]
      ELSE [st |-> [mg EXCEPT !.m_file[k] = Null], ret |-> mg.m_file[k]]

\* op_tine::next of peer k.
TineNext(mg, k) ==
  IF mg.m_done
    THEN [st |-> mg, ret |-> Null]
    ELSE IF \A j \in DOMAIN mg.m_file : mg.m_file[j] = Null
      THEN LET u == UpNext(mg.up)
           IN IF u.ret # Null
                THEN [st |-> [mg EXCEPT !.up = u.st,
                                        !.m_file = [[j \in DOMAIN @ |-> u.ret]
                                                      EXCEPT ![k] = Null]],
                      ret |-> u.ret]
                ELSE [st |-> [mg EXCEPT !.up = u.st, !.m_done = TRUE],
                      ret |-> Null]
      ELSE [st |-> [mg EXCEPT !.m_file[k] = Null], ret |-> mg.m_file[k]]

\* op_tine::reset: the file is emptied, the upstream reset.
TineReset(mg) ==
  [mg EXCEPT !.m_file = [j \in DOMAIN @ |-> Null], !.up = SubReset(@)]

RECURSIVE BranchNext(_, _)
\* child::next of branch k, with op_tine k as its upstream.
BranchNext(mg, k) ==
  IF mg.chs[k].m_vf = Null
    THEN LET t == TineNext(mg, k)
         IN IF t.ret = Null
              THEN t
              ELSE BranchNext([t.st EXCEPT !.chs[k] = ChildAccept(@, t.ret)], k)
    ELSE LET e == ChildEmit(mg.chs[k])
         IN [st |-> [mg EXCEPT !.chs[k] = e.st], ret |-> e.ret]

\* child::reset of branch k: reset_me, then op_tine::reset.
BranchReset(mg, k) == TineReset([mg EXCEPT !.chs[k] = ChildResetMe(@)])

RECURSIVE MergeLoopTurns(_, _)
\* The while loop of op_merge::next moving on to the next branch after
\* every result.
MergeLoopTurns(mg, fuel) ==
  IF mg.m_done \/ fuel = 0
    THEN [st |-> mg, ret |-> Null]
    ELSE LET r == BranchNext(mg, mg.m_it)
             turn == [r.st EXCEPT !.m_it = IF @ = Len(mg.chs) THEN 1 ELSE @ + 1]
         IN IF r.ret # Null
              THEN [st |-> turn, ret |-> r.ret]
              ELSE MergeLoopTurns(turn, fuel - 1)

RECURSIVE MergeLoop(_, _)
\* The while loop of op_merge::next.
MergeLoop(mg, fuel) ==
  IF mg.m_done \/ fuel = 0
    THEN [st |-> mg, ret |-> Null]
    ELSE LET r == BranchNext(mg, mg.m_it)
         IN IF r.ret # Null
              THEN r
              ELSE MergeLoop([r.st EXCEPT !.m_it =
                                IF @ = Len(mg.chs) THEN 1 ELSE @ + 1],
                             fuel - 1)

MergeNext(mg) ==
  IF mg.m_done THEN [st |-> mg, ret |-> Null] ELSE MergeLoop(mg, MaxSteps)

RECURSIVE BranchesReset(_, _)
\* for (auto op: m_ops) op->reset ().
BranchesReset(mg, k) ==
  IF k > Len(mg.chs) THEN mg ELSE BranchesReset(BranchReset(mg, k), k + 1)

\* op_merge::reset that leaves *m_done as it is.
MergeResetKeepDone(mg) == BranchesReset([mg EXCEPT !.m_it = 1], 1)

MergeReset(mg) ==
  BranchesReset([mg EXCEPT !.m_done = FALSE, !.m_it = 1], 1)

\* ------------------------------------------------------ Format, stringers
\* A string is the sequence of its pieces.  value::show of a DIE:
Show(v) == <<ToString(v.val)>>

StrValue(str, pos) == [type |-> T_STR, val |-> str, pos |-> pos]

\* op_format over the chain stringer_lit (lit) -> stringer_op 1 -> ... ->
\* stringer_op n -> stringer_origin; stringer_op i drives the child operator
\* of graph gs[i].
NewFormat(gu, gs, lit) ==
  [up |-> NewSub(gu),
   sorg |-> NewOrigin,
   sops |-> [i \in DOMAIN gs |-> [sub |-> NewSub(gs[i]), m_have |-> FALSE, m_str |-> <<>>]],
   m_lit |-> lit,
   m_pos |-> 0]

RECURSIVE StringerNext(_, _)
\* stringer_op::next of the i-th stringer_op; stringer_origin::next for
\* i beyond the last.
StringerNext(f, i) ==
  IF i > Len(f.sops)
    THEN [st |-> [f EXCEPT !.sorg = OriginNext(@).st],
          stk |-> f.sorg.m_stk, str |-> <<>>]
    ELSE IF ~f.sops[i].m_have
      THEN LET u == StringerNext(f, i + 1)
           IN IF u.stk = Null
                THEN [st |-> u.st, stk |-> Null, str |-> <<>>]
                ELSE StringerNext(
                       [u.st EXCEPT !.sops[i] = [sub |-> SubPrime(@.sub, u.stk),
                                                m_have |-> TRUE,
                                                m_str |-> u.str]], i)
      ELSE LET r == SubNext(f.sops[i].sub)
           IN IF r.ret # Null
                THEN [st |-> [f EXCEPT !.sops[i].sub = r.st],
                      stk |-> Pop(r.ret),
                      str |-> Show(Top(r.ret)) \o f.sops[i].m_str]
                ELSE StringerNext([f EXCEPT !.sops[i].sub = r.st,
                                            !.sops[i].m_have = FALSE], i)

\* stringer_lit::next putting its text after what came from upstream.
StringerLitNextAfter(f) ==
  LET u == StringerNext(f, 1)
  IN IF u.stk = Null
       THEN [st |-> u.st, stk |-> Null, str |-> <<>>]
       ELSE [u EXCEPT !.str = @ \o f.m_lit]

\* stringer_lit::next.
StringerLitNext(f) ==
  LET u == StringerNext(f, 1)
  IN IF u.stk = Null
       THEN [st |-> u.st, stk |-> Null, str |-> <<>>]
       ELSE [u EXCEPT !.str = f.m_lit \o @]

\* stringer_lit::reset, stringer_op::reset down to stringer_origin::reset.
StringerReset(f) ==
  [f EXCEPT !.sops = [i \in DOMAIN @ |->
                        [@[i] EXCEPT !.m_have = FALSE, !.sub = SubReset(@)]],
            !.sorg = OriginReset(@)]

\* op_format::reset_me that leaves m_pos as it is.
FormatResetMeKeepPos(f) == StringerReset(f)

FormatResetMe(f) == [StringerReset(f) EXCEPT !.m_pos = 0]

FormatReset(f) == [FormatResetMe(f) EXCEPT !.up = SubReset(@)]

RECURSIVE FormatNext(_)
FormatNext(f) ==
  LET t == StringerLitNext(f)
  IN IF t.stk # Null
       THEN [st |-> [t.st EXCEPT !.m_pos = @ + 1],
             ret |-> Push(t.stk, StrValue(t.str, f.m_pos))]
       ELSE LET u == SubNext(t.st.up)
            IN IF u.ret # Null
                 THEN LET r == FormatResetMe([t.st EXCEPT !.up = u.st])
                      IN FormatNext([r EXCEPT !.sorg = OriginSetNext(@, u.ret)])
                 ELSE [st |-> [t.st EXCEPT !.up = u.st], ret |-> Null]

\* ----------------------------------------------------------------- frames
\* Number of frames that can be alive at a time.
MaxFrame == 4

FrameIds == 1..MaxFrame

\* No frame is allocated.
EmptyHeap == [f \in FrameIds |-> Null]

\* std::make_shared <frame> (parent, num_vars): num_vars unbound slots.
NewFrame(parent, num_vars) ==
  [m_values |-> [i \in 1..num_vars |-> Null], m_parent |-> parent]

\* The id the next allocated frame gets.
FreeFrame(heap) == CHOOSE f \in FrameIds :
  heap[f] = Null /\ \A g \in FrameIds : heap[g] = Null => f <= g

RECURSIVE NthFrame(_, _, _)
\* stack::nth_frame (depth), from the frame f.
NthFrame(heap, f, depth) ==
  IF depth = 0 THEN f ELSE NthFrame(heap, heap[f].m_parent, depth - 1)

SetFrame(s, f) == [s EXCEPT !.m_frame = f]

\* frame::bind_value (index, v) on the frame f, index counted from 0.
BindValue(heap, f, index, v) == [heap EXCEPT ![f].m_values[index + 1] = v]

\* frame::read_value (index).
ReadValue(heap, f, index) == heap[f].m_values[index + 1]

\* The frames the values vv refer to: those of the closures among them.
FramesOfValues(vv) ==
  {vv[i].val.frame : i \in {j \in DOMAIN vv : vv[j] # Null /\ vv[j].type = T_CLOSURE}}

\* The frames a stack (or a null pointer) refers to.
FramesOfStack(s) ==
  IF s = Null THEN {} ELSE {s.m_frame} \cup FramesOfValues(s.m_values)

\* The frames the frame f refers to.
FramesOfFrame(heap, f) ==
  IF heap[f] = Null THEN {}
  ELSE {heap[f].m_parent} \cup FramesOfValues(heap[f].m_values)

RECURSIVE LiveFrames(_, _)
\* The frames that shared pointers keep alive, starting from roots.
LiveFrames(heap, roots) ==
  LET more == roots \cup UNION {FramesOfFrame(heap, f) : f \in roots \ {NoFrame}}
  IN IF more = roots THEN roots \ {NoFrame} ELSE LiveFrames(heap, more)

\* The end of the last shared pointer to a frame frees it.
Collect(heap, roots) ==
  [f \in FrameIds |-> IF f \in LiveFrames(heap, roots) THEN heap[f] ELSE Null]

\* value_closure::maybe_unlink_frame (f): when only closures bound in f
\* itself still refer to f, its slots and its parent link are dropped.
MaybeUnlinkFrame(heap, roots, f) ==
  IF f = NoFrame \/ heap[f] = Null THEN heap
  ELSE IF f \in roots
            \/ \E g \in FrameIds \ {f} : f \in FramesOfFrame(heap, g)
         THEN heap
         ELSE [heap EXCEPT ![f] = NewFrame(NoFrame, Len(heap[f].m_values))]

\* ------------------------------------------------------------------ scope
\* op_scope with num_vars slots over the body  bind 0@0, read 0@0, child of
\* graph g  on the scope's origin org; heap holds the frames.
NewScope(gu, g, num_vars) ==
  [up |-> NewSub(gu), org |-> NewOrigin, ch |-> NewChild(g),
   m_num_vars |-> num_vars, m_primed |-> FALSE, heap |-> EmptyHeap]

\* The stacks the operators of a scope hold.
ScopeRoots(o) ==
  FramesOfStack(o.org.m_stk) \cup FramesOfStack(o.ch.m_vf)
  \cup FramesOfStack(o.up.org.m_stk) \cup FramesOfStack(o.up.ch.m_vf)

\* op_bind::next for depth 0, index 0 on the stack s: the heap it leaves.
BindHeap(heap, s) == BindValue(heap, NthFrame(heap, s.m_frame, 0), 0, Top(s))

\* op_read::next for depth 0, index 0 on the stack s.
ReadNext(heap, s) == Push(s, ReadValue(heap, NthFrame(heap, s.m_frame, 0), 0))

RECURSIVE ScopeBodyNext(_)
\* m_op->next () of the scope: child::next over read over bind over origin.
ScopeBodyNext(o) ==
  IF o.ch.m_vf = Null
    THEN LET g == OriginNext(o.org)
         IN IF g.ret = Null
              THEN [st |-> [o EXCEPT !.org = g.st], ret |-> Null]
              ELSE LET h == BindHeap(o.heap, g.ret)
                       r == ReadNext(h, Pop(g.ret))
                   IN ScopeBodyNext([o EXCEPT !.org = g.st, !.heap = h,
                                              !.ch = ChildAccept(@, r)])
    ELSE LET e == ChildEmit(o.ch)
         IN [st |-> [o EXCEPT !.ch = e.st], ret |-> e.ret]

ScopeResetMe(o) == [o EXCEPT !.m_primed = FALSE]

\* The priming of op_scope::pimpl::next with the upstream stack s: a new
\* frame on s, m_op->reset (), m_origin->set_next (s).
ScopePrime(o, s) ==
  LET f == FreeFrame(o.heap)
  IN [o EXCEPT !.heap[f] = NewFrame(NthFrame(o.heap, s.m_frame, 0), o.m_num_vars),
               !.ch = ChildResetMe(@),
               !.org = OriginSetNext(OriginReset(@), SetFrame(s, f)),
               !.m_primed = TRUE]

\* The emission of op_scope::pimpl::next: the frame of s is popped and
\* maybe unlinked.
ScopeEmit(o, s) ==
  LET of == NthFrame(o.heap, s.m_frame, 0)
      ret == SetFrame(s, NthFrame(o.heap, s.m_frame, 1))
      roots == ScopeRoots(o) \cup FramesOfStack(ret)
  IN [st |-> [o EXCEPT !.heap = Collect(MaybeUnlinkFrame(@, roots, of), roots)],
      ret |-> ret]

RECURSIVE ScopeNext(_)
\* op_scope::pimpl::next.
ScopeNext(o) ==
  IF ~o.m_primed
    THEN LET u == SubNext(o.up)
         IN IF u.ret = Null
              THEN [st |-> [o EXCEPT !.up = u.st], ret |-> Null]
              ELSE ScopeNext(ScopePrime([o EXCEPT !.up = u.st], u.ret))
    ELSE LET b == ScopeBodyNext(o)
         IN IF b.ret # Null
              THEN ScopeEmit(b.st, b.ret)
              ELSE ScopeNext(ScopeResetMe(
                     [b.st EXCEPT !.heap = Collect(@, ScopeRoots(b.st))]))

\* op_scope::pimpl::reset.
ScopeReset(o) == [ScopeResetMe(o) EXCEPT !.up = SubReset(@)]

\* The stacks an upstream holds.
UpRoots(up) ==
  IF "q" \in DOMAIN up
    THEN UNION {FramesOfStack(up.q[i]) : i \in DOMAIN up.q}
    ELSE FramesOfStack(up.org.m_stk) \cup FramesOfStack(up.ch.m_vf)

\* op_origin constructed with a stack.
NewOriginWith(s) == [m_stk |-> s, m_reset |-> FALSE, failed |-> FALSE]

\* value_closure over the child operator of graph g, capturing the frame f.
ClosureValue(g, f) == [type |-> T_CLOSURE, val |-> [tree |-> g, frame |-> f], pos |-> 0]

\* op_apply on an upstream that is the child operator of graph gu, followed
\* by op_lex_closure when lex holds; m_op is the built body of the closure.
NewApply(gu, g, lex, skip) ==
  [up |-> NewSub(gu), m_t |-> g, lex |-> lex, skip |-> skip,
   m_op |-> Null, m_old_frame |-> NoFrame, heap |-> EmptyHeap]

\* m_upstream->next () of the apply: op_lex_closure::next, or child::next.
ApplyUpstreamNext(o) ==
  LET u == UpNext(o.up)
  IN [st |-> [o EXCEPT !.up = u.st],
      ret |-> IF u.ret = Null \/ ~o.lex THEN u.ret
              ELSE Push(u.ret, ClosureValue(o.m_t, NthFrame(o.heap, u.ret.m_frame, 0)))]

\* The stacks the operators of an apply hold.
ApplyRoots(o) ==
  {o.m_old_frame} \cup UpRoots(o.up)
  \cup (IF o.m_op = Null THEN {}
        ELSE FramesOfStack(o.m_op.org.m_stk) \cup FramesOfStack(o.m_op.ch.m_vf))

ApplyResetMe(o) ==
  LET cleared == [o EXCEPT !.m_op = Null]
      roots == ApplyRoots(cleared) \ {o.m_old_frame}
  IN [cleared EXCEPT !.m_old_frame = NoFrame,
                     !.heap = Collect(MaybeUnlinkFrame(@, roots, o.m_old_frame), roots)]

\* The closure on top of s is popped and its body built on a new origin.
ApplyBuild(o, s) ==
  LET cl == Top(s).val
  IN [o EXCEPT !.m_old_frame = NthFrame(o.heap, s.m_frame, 0),
               !.m_op = [org |-> NewOriginWith(SetFrame(Pop(s), cl.frame)),
                         ch |-> NewChild(cl.tree)]]

\* The emission of op_apply::pimpl::next: the original frame is restored.
ApplyEmit(o, s) ==
  LET of == NthFrame(o.heap, s.m_frame, 0)
      ret == SetFrame(s, o.m_old_frame)
      roots == ApplyRoots(o) \cup FramesOfStack(ret)
  IN [st |-> [o EXCEPT !.heap = Collect(MaybeUnlinkFrame(@, roots, of), roots)],
      ret |-> ret]

\* The line op_apply writes to std::cerr: diag counts them, for an apply
\* that was built with the count.
ApplyComplain(o) == IF "diag" \in DOMAIN o THEN [o EXCEPT !.diag = @ + 1] ELSE o

RECURSIVE ApplyNextStop(_)
\* op_apply::pimpl::next giving up at a TOS that is no closure.
ApplyNextStop(o) ==
  IF o.m_op = Null
    THEN LET u == ApplyUpstreamNext(o)
         IN IF u.ret = Null THEN u
            ELSE IF Top(u.ret).type # T_CLOSURE
              THEN IF o.skip THEN u
                   ELSE [st |-> ApplyComplain(u.st), ret |-> Null]
              ELSE ApplyNextStop(ApplyBuild(u.st, u.ret))
    ELSE LET b == SubNext(o.m_op)
         IN IF b.ret # Null
              THEN ApplyEmit([o EXCEPT !.m_op = b.st], b.ret)
              ELSE ApplyNextStop(ApplyResetMe([o EXCEPT !.m_op = b.st]))

RECURSIVE ApplyNext(_)
\* op_apply::pimpl::next.
ApplyNext(o) ==
  IF o.m_op = Null
    THEN LET u == ApplyUpstreamNext(o)
         IN IF u.ret = Null THEN u
            ELSE IF Top(u.ret).type # T_CLOSURE
              THEN IF o.skip THEN u ELSE ApplyNext(ApplyComplain(u.st))
              ELSE ApplyNext(ApplyBuild(u.st, u.ret))
    ELSE LET b == SubNext(o.m_op)
         IN IF b.ret # Null
              THEN ApplyEmit([o EXCEPT !.m_op = b.st], b.ret)
              ELSE ApplyNext(ApplyResetMe([o EXCEPT !.m_op = b.st]))

\* op_apply::pimpl::reset.
ApplyReset(o) == [ApplyResetMe(o) EXCEPT !.up = SubReset(@)]

\* ------------------------------------ the words unit, child and attribute
\* The Dwarf the words read: the DIEs of every unit in the order
\* all_dies_iterator visits them, and the attributes of every DIE.
Units == <<[i \in 1..(MaxNode - 1) |-> i], <<MaxNode>>>>

AttrsOf(n) == [i \in 1..(n % MaxNode) |-> i]

\* value_attr: the attribute a of the DIE n.
AttrValue(n, a, pos) == [type |-> T_ATTR, val |-> <<n, a>>, pos |-> pos]

\* unit::init_from_die: m_it and m_end bracket the DIEs of the unit of n.
InitFromDie(n) == Units[CHOOSE i \in DOMAIN Units : \E j \in DOMAIN Units[i] : Units[i][j] = n]

\* The word unit on a feed; m_it holds the DIEs from m_it up to m_end.
NewUnit(q) == [up |-> NewFeed(q), m_vf |-> Null, m_it |-> <<>>, m_pos |-> 0, diag |-> 0]

UnitResetMe(o) == [o EXCEPT !.m_vf = Null, !.m_it = <<>>, !.m_pos = 0]

\* unit::next for a stack vf of the upstream, with a DIE taken for the only
\* value the word works on.
UnitAcceptDieOnly(o, vf) ==
  LET vp == Top(vf)
  IN IF vp.type = T_NODE
       THEN [o EXCEPT !.m_it = InitFromDie(vp.val), !.m_vf = Pop(vf)]
       ELSE [o EXCEPT !.diag = @ + 1]

\* unit::next for a stack vf of the upstream: TOS is popped; a DIE or an
\* attribute sets the iterator to the unit of the DIE, anything else is
\* answered by a line on std::cerr.
UnitAccept(o, vf) ==
  LET vp == Top(vf)
  IN CASE vp.type = T_NODE ->
            [o EXCEPT !.m_it = InitFromDie(vp.val), !.m_vf = Pop(vf)]
       [] vp.type = T_ATTR ->
            [o EXCEPT !.m_it = InitFromDie(vp.val[1]), !.m_vf = Pop(vf)]
       [] OTHER -> [o EXCEPT !.diag = @ + 1]

RECURSIVE UnitNext(_)
\* unit::next.
UnitNext(o) ==
  IF o.m_vf = Null
    THEN LET u == UpNext(o.up)
         IN IF u.ret = Null
              THEN [st |-> [o EXCEPT !.up = u.st], ret |-> Null]
              ELSE UnitNext(UnitAccept([o EXCEPT !.up = u.st], u.ret))
    ELSE IF o.m_it # <<>>
      THEN [st |-> [o EXCEPT !.m_it = Tail(@), !.m_pos = @ + 1],
            ret |-> Push(o.m_vf, NodeValue(Head(o.m_it), o.m_pos))]
      ELSE UnitNext(UnitResetMe(o))

\* The word child of graph g on a feed.
NewChildWord(q, g) == [up |-> NewFeed(q), ch |-> NewChild(g), diag |-> 0]

RECURSIVE ChildWordNext(_)
\* child::next on a feed: a TOS that is no DIE is answered by a line on
\* std::cerr, a DIE without children by nothing at all.
ChildWordNext(o) ==
  IF o.ch.m_vf = Null
    THEN LET u == UpNext(o.up)
         IN IF u.ret = Null
              THEN [st |-> [o EXCEPT !.up = u.st], ret |-> Null]
              ELSE ChildWordNext(
                     [o EXCEPT !.up = u.st,
                               !.ch = ChildAccept(@, u.ret),
                               !.diag = IF Top(u.ret).type = T_NODE THEN @ ELSE @ + 1])
    ELSE LET e == ChildEmit(o.ch)
         IN [st |-> [o EXCEPT !.ch = e.st], ret |-> e.ret]

\* The word attribute on a feed; m_it holds the attributes still to come.
NewAttribute(q) ==
  [up |-> NewFeed(q), m_vf |-> Null, m_die |-> 0, m_it |-> <<>>, m_pos |-> 0,
   diag |-> 0]

AttributeResetMe(o) == [o EXCEPT !.m_vf = Null, !.m_pos = 0]

AttributeAccept(o, vf) ==
  LET vp == Top(vf)
  IN IF vp.type = T_NODE
       THEN [o EXCEPT !.m_die = vp.val, !.m_it = AttrsOf(vp.val), !.m_vf = Pop(vf)]
       ELSE [o EXCEPT !.diag = @ + 1]

RECURSIVE AttributeNext(_)
\* attribute::next.
AttributeNext(o) ==
  IF o.m_vf = Null
    THEN LET u == UpNext(o.up)
         IN IF u.ret = Null
              THEN [st |-> [o EXCEPT !.up = u.st], ret |-> Null]
              ELSE AttributeNext(AttributeAccept([o EXCEPT !.up = u.st], u.ret))
    ELSE IF o.m_it # <<>>
      THEN [st |-> [o EXCEPT !.m_it = Tail(@), !.m_pos = @ + 1],
            ret |-> Push(o.m_vf, AttrValue(o.m_die, Head(o.m_it), o.m_pos))]
      ELSE AttributeNext(AttributeResetMe(o))

\* op_apply built without skip_non_closures on a feed.
NewApplyOnFeed(q) ==
  [up |-> NewFeed(q), m_t |-> "none", lex |-> FALSE, skip |-> FALSE,
   m_op |-> Null, m_old_frame |-> NoFrame, heap |-> EmptyHeap, diag |-> 0]

\* ----------------------------------------- a closure bound in a scope
\* The program  (|X C| (|Y| C apply) C apply)  over the closure {X child}:
\*   scope_o (2 slots) over  bind 0@0, lex_closure, bind 1@0,
\*     scope_i (1 slot) over  read 1@1, apply a,
\*   read 1@0, apply b;
\* the body of the closure is  read 0@0, child of graph g.  org_o and org_i
\* are the origins of the scopes, a and b the two op_apply.  in_o, own_o,
\* in_i, own_i and handed are history: the frame a scope found on the stack
\* it pulled and the frame it made, and for every emission of an inner
\* operator the frame it found on the operand stack (got), the frame its
\* body ran with (ran) and the frame on the stack it emitted (gave).  broken
\* records a read through a frame link or a slot that is no longer there.
NewLexical(gu, g) ==
  [up |-> NewSub(gu), m_t |-> g, heap |-> EmptyHeap,
   org_o |-> NewOrigin, o_primed |-> FALSE,
   org_i |-> NewOrigin, i_primed |-> FALSE,
   a |-> [m_op |-> Null, m_old_frame |-> NoFrame],
   b |-> [m_op |-> Null, m_old_frame |-> NoFrame],
   in_o |-> NoFrame, own_o |-> NoFrame, in_i |-> NoFrame, own_i |-> NoFrame,
   handed |-> {}, broken |-> FALSE]

\* The frames the operators of the program hold in stacks and in
\* m_old_frame.
LexRoots(o) ==
  {o.a.m_old_frame, o.b.m_old_frame}
  \cup FramesOfStack(o.up.org.m_stk) \cup FramesOfStack(o.up.ch.m_vf)
  \cup FramesOfStack(o.org_o.m_stk) \cup FramesOfStack(o.org_i.m_stk)
  \cup (IF o.a.m_op = Null THEN {}
        ELSE FramesOfStack(o.a.m_op.org.m_stk) \cup FramesOfStack(o.a.m_op.ch.m_vf))
  \cup (IF o.b.m_op = Null THEN {}
        ELSE FramesOfStack(o.b.m_op.org.m_stk) \cup FramesOfStack(o.b.m_op.ch.m_vf))

\* value_closure::maybe_unlink_frame (f) while the stack s is on its way
\* downstream; frames nothing refers to any more are freed.
LexUnlink(o, s, f) ==
  LET roots == LexRoots(o) \cup FramesOfStack(s)
  IN [o EXCEPT !.heap = Collect(MaybeUnlinkFrame(@, roots, f), roots)]

RECURSIVE LexLinked(_, _, _)
\* Is the frame depth parents up from f still there?
LexLinked(heap, f, depth) ==
  /\ f # NoFrame
  /\ heap[f] # Null
  /\ depth > 0 => LexLinked(heap, heap[f].m_parent, depth - 1)

\* Is slot index of the frame depth parents up from f there and bound?
LexBound(heap, f, depth, index) ==
  /\ LexLinked(heap, f, depth)
  /\ index < Len(heap[NthFrame(heap, f, depth)].m_values)
  /\ ReadValue(heap, NthFrame(heap, f, depth), index) # Null

\* What a read of a slot that is not there leaves on the stack.
Unbound == [type |-> T_CONST, val |-> 0, pos |-> 0]

\* op_read::next for index@depth on the stack s.
LexRead(o, s, depth, index) ==
  IF LexBound(o.heap, s.m_frame, depth, index)
    THEN [st |-> o,
          ret |-> Push(s, ReadValue(o.heap, NthFrame(o.heap, s.m_frame, depth), index))]
    ELSE [st |-> [o EXCEPT !.broken = TRUE], ret |-> Push(s, Unbound)]

\* op_bind::next for index@0 on the stack s.
LexBind(o, s, index) ==
  IF LexLinked(o.heap, s.m_frame, 0)
    THEN [st |-> [o EXCEPT !.heap = BindValue(@, s.m_frame, index, Top(s))],
          ret |-> Pop(s)]
    ELSE [st |-> [o EXCEPT !.broken = TRUE], ret |-> Pop(s)]

\* reset_me of op_apply w that unlinks m_old_frame whoever refers to it.
LexApplyResetMeUnlink(o, w, s) ==
  LET cleared == [o EXCEPT ![w] = [m_op |-> Null, m_old_frame |-> NoFrame]]
      f == o[w].m_old_frame
  IN IF f = NoFrame \/ o.heap[f] = Null THEN cleared
     ELSE [cleared EXCEPT !.heap[f] = NewFrame(NoFrame, Len(@.m_values))]

\* reset_me of op_apply w, while the stack s (or none) is on its way.
LexApplyResetMe(o, w, s) ==
  LET cleared == [o EXCEPT ![w] = [m_op |-> Null, m_old_frame |-> NoFrame]]
  IN LexUnlink(cleared, s, o[w].m_old_frame)

\* op_apply w takes the closure on top of s: m_old_frame is the frame of s,
\* the body is built on an origin holding s with the frame of the closure.
LexApplyBuild(o, w, s) ==
  [o EXCEPT ![w] = [m_old_frame |-> s.m_frame,
                    m_op |-> [org |-> NewOriginWith(SetFrame(Pop(s), Top(s).val.frame)),
                              ch |-> NewChild(Top(s).val.tree)]]]

\* The emission of op_apply w that leaves the frame of the body on the stack.
LexApplyEmitAsIs(o, w, s) ==
  LET seen == [by |-> w, got |-> o[w].m_old_frame, ran |-> s.m_frame,
               gave |-> s.m_frame]
  IN [st |-> LexUnlink([o EXCEPT !.handed = @ \cup {seen}], s, s.m_frame),
      ret |-> s]

\* The emission of op_apply w: the frame of the caller is restored on the
\* stack s of the body, the frame of the body maybe unlinked.
LexApplyEmit(o, w, s) ==
  LET ret == SetFrame(s, o[w].m_old_frame)
      seen == [by |-> w, got |-> o[w].m_old_frame, ran |-> s.m_frame,
               gave |-> ret.m_frame]
  IN [st |-> LexUnlink([o EXCEPT !.handed = @ \cup {seen}], ret, s.m_frame),
      ret |-> ret]

RECURSIVE LexBodyNext(_, _)
\* m_op->next () of op_apply w: child over read 0@0 over the origin.
LexBodyNext(o, w) ==
  IF o[w].m_op.ch.m_vf = Null
    THEN LET g == OriginNext(o[w].m_op.org)
         IN IF g.ret = Null
              THEN [st |-> o, ret |-> Null]
              ELSE LET r == LexRead([o EXCEPT ![w].m_op.org = g.st], g.ret, 0, 0)
                   IN LexBodyNext([r.st EXCEPT ![w].m_op.ch = ChildAccept(@, r.ret)], w)
    ELSE LET e == ChildEmit(o[w].m_op.ch)
         IN [st |-> [o EXCEPT ![w].m_op.ch = e.st], ret |-> e.ret]

\* The operators between the origin of scope_o and scope_i on the stack s:
\* bind 0@0, lex_closure, bind 1@0.
LexBindings(o, s) ==
  LET x == LexBind(o, s, 0)
  IN LexBind(x.st, Push(x.ret, ClosureValue(o.m_t, s.m_frame)), 1)

\* The priming of scope_i with the stack s: a new frame on s, reset of
\* apply a and of its upstream, set_next.
LexPrimeI(o, s) ==
  LET f == FreeFrame(o.heap)
      r == LexApplyResetMe([o EXCEPT !.heap[f] = NewFrame(s.m_frame, 1)], "a",
                           SetFrame(s, f))
  IN [r EXCEPT !.org_i = OriginSetNext(OriginReset(@), SetFrame(s, f)),
               !.in_i = s.m_frame, !.own_i = f,
               !.i_primed = TRUE]

\* The emission of scope_i or scope_o that leaves the frame of the scope
\* on the stack.
LexScopeEmitAsIs(o, w, s) ==
  LET seen == [by |-> w, got |-> IF w = "i" THEN o.in_i ELSE o.in_o,
               ran |-> s.m_frame, gave |-> s.m_frame]
  IN [st |-> LexUnlink([o EXCEPT !.handed = @ \cup {seen}], s, s.m_frame),
      ret |-> s]

\* The emission of scope_i or scope_o (w): the frame of s is popped and
\* maybe unlinked.
LexScopeEmit(o, w, s) ==
  LET linked == LexLinked(o.heap, s.m_frame, 0)
      ret == SetFrame(s, IF linked THEN o.heap[s.m_frame].m_parent ELSE NoFrame)
      seen == [by |-> w, got |-> IF w = "i" THEN o.in_i ELSE o.in_o,
               ran |-> s.m_frame, gave |-> ret.m_frame]
  IN [st |-> LexUnlink([o EXCEPT !.handed = @ \cup {seen},
                                 !.broken = @ \/ ~linked], ret, s.m_frame),
      ret |-> ret]

RECURSIVE LexApplyNext(_, _, _)
RECURSIVE LexScopeINext(_, _)
\* op_scope::pimpl::next of scope_i.
LexScopeINext(o, fuel) ==
  IF fuel = 0 THEN [st |-> o, ret |-> Null]
  ELSE IF ~o.i_primed
    THEN LET g == OriginNext(o.org_o)
         IN IF g.ret = Null
              THEN [st |-> o, ret |-> Null]
              ELSE LET c == LexBindings([o EXCEPT !.org_o = g.st], g.ret)
                   IN LexScopeINext(LexPrimeI(c.st, c.ret), fuel - 1)
    ELSE LET r == LexApplyNext(o, "a", fuel - 1)
         IN IF r.ret # Null
              THEN LexScopeEmit(r.st, "i", r.ret)
              ELSE LexScopeINext([r.st EXCEPT !.i_primed = FALSE], fuel - 1)

\* m_upstream->next () of op_apply w: read 1@1 over the origin of scope_i
\* for a, read 1@0 over scope_i for b.
LexApplyUpstreamNext(o, w, fuel) ==
  IF w = "a"
    THEN LET g == OriginNext(o.org_i)
         IN IF g.ret = Null THEN [st |-> o, ret |-> Null]
            ELSE LexRead([o EXCEPT !.org_i = g.st], g.ret, 1, 1)
    ELSE LET i == LexScopeINext(o, fuel)
         IN IF i.ret = Null THEN i ELSE LexRead(i.st, i.ret, 0, 1)

\* op_apply::pimpl::next of op_apply w.
LexApplyNext(o, w, fuel) ==
  IF fuel = 0 THEN [st |-> o, ret |-> Null]
  ELSE IF o[w].m_op = Null
    THEN LET u == LexApplyUpstreamNext(o, w, fuel - 1)
         IN IF u.ret = Null THEN u
            ELSE IF Top(u.ret).type # T_CLOSURE
              THEN LexApplyNext(u.st, w, fuel - 1)
              ELSE LexApplyNext(LexApplyBuild(u.st, w, u.ret), w, fuel - 1)
    ELSE LET r == LexBodyNext(o, w)
         IN IF r.ret # Null
              THEN LexApplyEmit(r.st, w, r.ret)
              ELSE LexApplyNext(LexApplyResetMe(r.st, w, Null), w, fuel - 1)

\* The priming of scope_o with the upstream stack s: a new frame on s, reset
\* of apply b and of all that is upstream of it, set_next.
LexPrimeO(o, s) ==
  LET f == FreeFrame(o.heap)
      r == LexApplyResetMe([o EXCEPT !.heap[f] = NewFrame(s.m_frame, 2),
                                     !.i_primed = FALSE], "b", SetFrame(s, f))
  IN [r EXCEPT !.org_o = OriginSetNext(OriginReset(@), SetFrame(s, f)),
               !.in_o = s.m_frame, !.own_o = f,
               !.o_primed = TRUE]

RECURSIVE LexicalNext(_, _)
\* op_scope::pimpl::next of scope_o.
LexicalNext(o, fuel) ==
  IF fuel = 0 THEN [st |-> o, ret |-> Null]
  ELSE IF ~o.o_primed
    THEN LET u == SubNext(o.up)
         IN IF u.ret = Null
              THEN [st |-> [o EXCEPT !.up = u.st], ret |-> Null]
              ELSE LexicalNext(LexPrimeO([o EXCEPT !.up = u.st], u.ret), fuel - 1)
    ELSE LET r == LexApplyNext(o, "b", fuel - 1)
         IN IF r.ret # Null
              THEN LexScopeEmit(r.st, "o", r.ret)
              ELSE LexicalNext([r.st EXCEPT !.o_primed = FALSE], fuel - 1)

\* op_scope::pimpl::reset of scope_o.
LexicalReset(o) == [o EXCEPT !.o_primed = FALSE, !.up = SubReset(@)]

\* ------------------------------------------------------------- predicates
\* A constant, and a DIE of the debug-info file `file'.
CstValue(c, pos) == [type |-> T_CONST, val |-> c, pos |-> pos]

DieValue(file, n, pos) == [type |-> T_NODE, val |-> n, pos |-> pos, file |-> file]

\* Two DIEs that come from different files cannot be compared.
Comparable(a, b) ==
  ~("file" \in DOMAIN a /\ "file" \in DOMAIN b /\ a.file # b.file)

\* compare (a, b) of two numbers.
Compare(a, b) == IF a < b THEN "less" ELSE IF b < a THEN "greater" ELSE "equal"

RECURSIVE Cmp(_, _)
RECURSIVE CompareSequences(_, _, _)
\* compare_sequences (sa, sb, cmp) on sequences of one length: what cmp
\* returns at the first position where it does not return equal. by_type
\* holds for the callable that compares the type codes, and does not for
\* the one that calls cmp of the elements.
CompareSequences(sa, sb, by_type) ==
  IF sa = <<>> THEN "equal"
  ELSE LET ret == IF by_type THEN Compare(Head(sa).type, Head(sb).type)
                  ELSE Cmp(Head(sa), Head(sb))
       IN IF ret = "equal" THEN CompareSequences(Tail(sa), Tail(sb), by_type) ELSE ret

\* value_seq::cmp.
SeqCmp(a, b) ==
  IF b.type # T_SEQ THEN "fail"
  ELSE IF Compare(Len(a.val), Len(b.val)) # "equal" THEN Compare(Len(a.val), Len(b.val))
  ELSE IF CompareSequences(a.val, b.val, TRUE) # "equal"
    THEN CompareSequences(a.val, b.val, TRUE)
  ELSE CompareSequences(a.val, b.val, FALSE)

\* value::cmp of two values of one variant ("less", "equal", "greater", or
\* "fail" when the comparison is meaningless).
Cmp(a, b) ==
  IF a.type = T_SEQ THEN SeqCmp(a, b)
  ELSE IF ~Comparable(a, b) THEN "fail"
  ELSE IF a.val < b.val THEN "less"
  ELSE IF a.val > b.val THEN "greater" ELSE "equal"

\* pred_result (bool).
PredResult(b) == IF b THEN "yes" ELSE "no"

\* comparison_result with a failed cmp taken for a relation that does not
\* hold.
ComparisonResultNoFail(s, want) ==
  LET va == Get(s, 0)
      vb == Get(s, 1)
  IN [res |-> IF va.type < vb.type THEN PredResult(want = "less")
              ELSE IF vb.type < va.type THEN PredResult(want = "greater")
              ELSE PredResult(Cmp(vb, va) = want),
      diag |-> 0]

\* comparison_result: va is TOS, vb the value below it; diag counts the
\* lines written to std::cerr.
ComparisonResult(s, want) ==
  LET va == Get(s, 0)
      vb == Get(s, 1)
  IN IF va.type < vb.type THEN [res |-> PredResult(want = "less"), diag |-> 0]
     ELSE IF vb.type < va.type THEN [res |-> PredResult(want = "greater"), diag |-> 0]
     ELSE IF Cmp(vb, va) = "fail" THEN [res |-> "fail", diag |-> 1]
     ELSE [res |-> PredResult(Cmp(vb, va) = want), diag |-> 0]

\* The words ?eq, ?lt and ?gt and the relation each asks for.
Leaves == {"eq", "lt", "gt"}

WantOf(k) == CASE k = "eq" -> "equal" [] k = "lt" -> "less" [] k = "gt" -> "greater"

\* operator! of pred_result.
Negate(r) == CASE r = "yes" -> "no" [] r = "no" -> "yes" [] r = "fail" -> "fail"

\* What evaluating b after a adds up to: the result of b, what both
\* evaluated and what both wrote to std::cerr.
Then(a, b) ==
  [res |-> b.res, evals |-> a.evals \o b.evals, diag |-> a.diag + b.diag]

RECURSIVE PredEval(_, _)
\* pred_and::result with both operands evaluated.
PredAndBoth(p, s) ==
  LET a == PredEval(p.a, s)
      b == PredEval(p.b, s)
  IN [Then(a, b) EXCEPT !.res = IF a.res # "yes" THEN a.res ELSE b.res]

\* pred_and::result: m_a->result (stk) && m_b->result (stk).
PredAnd(p, s) ==
  LET a == PredEval(p.a, s)
  IN IF a.res # "yes" THEN a ELSE Then(a, PredEval(p.b, s))

\* pred_or::result: m_a->result (stk) || m_b->result (stk).
PredOr(p, s) ==
  LET a == PredEval(p.a, s)
  IN IF a.res # "no" THEN a ELSE Then(a, PredEval(p.b, s))

\* pred::result of the predicate p on the stack s: its result, the words
\* evaluated on the way, in order, and the number of diagnostics written.
\* A predicate is a comparison word [k], [k |-> "not", a], or
\* [k |-> "and" or "or", a, b].
PredEval(p, s) ==
  CASE p.k \in Leaves ->
         LET r == ComparisonResult(s, WantOf(p.k))
         IN [res |-> r.res, evals |-> <<p.k>>, diag |-> r.diag]
    [] p.k = "not" -> [PredEval(p.a, s) EXCEPT !.res = Negate(@)]
    [] p.k = "and" -> PredAnd(p, s)
    [] p.k = "or" -> PredOr(p, s)

\* op_assert over pred_subx_any, whose sub-expression is the child operator
\* of graph g.
NewAssertAny(gu, g) == [up |-> NewSub(gu), inner |-> NewSub(g)]

\* pred_subx_any::result on the stack s.
SubXAnyResult(o, s) ==
  LET r == SubNext(SubPrime(o.inner, s))
  IN [st |-> [o EXCEPT !.inner = r.st], res |-> PredResult(r.ret # Null)]

\* op_assert over pred_subx_compare: the two sub-expressions are the child
\* operators ch1 and ch2 on the one origin org; the predicate is ?eq, ?lt or
\* ?gt as want says.
NewAssertCompare(gu, g1, g2, want) ==
  [up |-> NewSub(gu), org |-> NewOrigin,
   ch1 |-> NewChild(g1), ch2 |-> NewChild(g2), want |-> want]

\* m_op1->reset () or m_op2->reset (), then m_origin->set_next (s).
ComparePrime(o, which, s) ==
  [o EXCEPT ![which] = ChildResetMe(@),
            !.org = OriginSetNext(OriginReset(@), s)]

\* m_op1->next () or m_op2->next ().
CompareOpNext(o, which) ==
  LET r == SubNext([org |-> o.org, ch |-> o[which]])
  IN [st |-> [o EXCEPT !.org = r.st.org, ![which] = r.st.ch], ret |-> r.ret]

RECURSIVE CompareOuter(_, _)
RECURSIVE CompareInner(_, _, _)
\* The inner while loop without stk_1->pop ().
CompareInnerNoPop(o, s, s1) ==
  LET r == CompareOpNext(o, "ch2")
  IN IF r.ret = Null
       THEN CompareOuter(r.st, s)
       ELSE IF ComparisonResult(Push(s1, Top(r.ret)), o.want).res = "yes"
         THEN [st |-> r.st, res |-> "yes"]
         ELSE CompareInner(r.st, s, Push(s1, Top(r.ret)))

\* The inner while loop of pred_subx_compare::result, s1 being stk_1.
CompareInner(o, s, s1) ==
  LET r == CompareOpNext(o, "ch2")
  IN IF r.ret = Null
       THEN CompareOuter(r.st, s)
       ELSE IF ComparisonResult(Push(s1, Top(r.ret)), o.want).res = "yes"
         THEN [st |-> r.st, res |-> "yes"]
         ELSE CompareInner(r.st, s, Pop(Push(s1, Top(r.ret))))

\* The outer while loop.
CompareOuter(o, s) ==
  LET r == CompareOpNext(o, "ch1")
  IN IF r.ret = Null
       THEN [st |-> r.st, res |-> "no"]
       ELSE CompareInner(ComparePrime(r.st, "ch2", s), s, r.ret)

\* pred_subx_compare::result on the stack s.
SubXCompareResult(o, s) == CompareOuter(ComparePrime(o, "ch1", s), s)

\* op_assert over the predicate p (comparison words under not, and, or) on
\* a feed; log keeps, for every stack the predicate was asked about, what
\* PredEval gave.
NewAssertPred(q) == [up |-> NewFeed(q), log |-> <<>>]

AssertLogged(o, s, r) ==
  [st |-> [o EXCEPT !.log = Append(@, [stk |-> s, res |-> r.res,
                                       evals |-> r.evals, diag |-> r.diag])],
   res |-> r.res]

\* m_pred->result (*stk) of the op_assert o.
AssertPredResult(c, o, s) ==
  CASE c.kind = "any" -> SubXAnyResult(o, s)
    [] c.kind = "compare" -> SubXCompareResult(o, s)
    [] c.kind = "pred" -> AssertLogged(o, s, PredEval(c.p, s))

RECURSIVE AssertNextNotNo(_, _)
\* op_assert::next with every result but no taken for yes.
AssertNextNotNo(c, o) ==
  LET u == UpNext(o.up)
  IN IF u.ret = Null
       THEN [st |-> [o EXCEPT !.up = u.st], ret |-> Null]
       ELSE LET p == AssertPredResult(c, [o EXCEPT !.up = u.st], u.ret)
            IN IF p.res # "no"
                 THEN [st |-> p.st, ret |-> u.ret]
                 ELSE AssertNextNotNo(c, p.st)

RECURSIVE AssertNext(_, _)
\* op_assert::next.
AssertNext(c, o) ==
  LET u == UpNext(o.up)
  IN IF u.ret = Null
       THEN [st |-> [o EXCEPT !.up = u.st], ret |-> Null]
       ELSE LET p == AssertPredResult(c, [o EXCEPT !.up = u.st], u.ret)
            IN IF p.res = "yes"
                 THEN [st |-> p.st, ret |-> u.ret]
                 ELSE AssertNext(c, p.st)

\* pred_subx_any::reset and pred_subx_compare::reset, then the reset of the
\* upstream of op_assert.
AssertReset(c, o) ==
  IF c.kind = "any"
    THEN [o EXCEPT !.inner = SubReset(@), !.up = SubReset(@)]
    ELSE [o EXCEPT !.ch1 = ChildResetMe(@), !.ch2 = ChildResetMe(@),
                   !.org = OriginReset(@), !.up = SubReset(@)]

\* ------------------------------------------------- the operator under test
\* The operator is built on an upstream child operator (graph gu) whose
\* origin the consumer primes; its sub-expressions are child operators of
\* the graphs gs.
UpGraph == "dag"

OrCfgs ==
  {[kind |-> "or", gu |-> UpGraph, gs |-> gs, plus |-> FALSE, keep |-> 0] :
     gs \in [1..2 -> GraphIds]}

IfElseCfgs ==
  {[kind |-> "ifelse", gu |-> UpGraph, gs |-> gs, plus |-> FALSE, keep |-> 0] :
     gs \in [1..3 -> {"dag", "cycle", "wide", "none"}]}

SubXCfgs ==
  {[kind |-> "subx", gu |-> UpGraph, gs |-> <<g>>, plus |-> FALSE, keep |-> k] :
     g \in GraphIds, k \in 0..2}

CaptureCfgs ==
  {[kind |-> "capture", gu |-> UpGraph, gs |-> <<g>>, plus |-> FALSE, keep |-> 0] :
     g \in GraphIds}

TrClosureCfgs ==
  {[kind |-> "closure", gu |-> UpGraph, gs |-> <<g>>, plus |-> b, keep |-> 0] :
     g \in GraphIds \cup {"deep"}, b \in BOOLEAN}

MergeCfgs ==
  {[kind |-> "merge", gu |-> UpGraph, gs |-> gs, plus |-> FALSE, keep |-> 0] :
     gs \in [1..2 -> {"dag", "cycle", "loop", "wide", "none"}]}

FormatCfgs ==
  {[kind |-> "format", gu |-> UpGraph, gs |-> gs, plus |-> FALSE, keep |-> 0] :
     gs \in [1..2 -> {"dag", "cycle", "wide"}]}

AssertCfgs ==
  {[kind |-> "any", gu |-> UpGraph, gs |-> <<g>>, plus |-> FALSE, keep |-> 0,
    want |-> "equal"] : g \in GraphIds}
  \cup
  {[kind |-> "compare", gu |-> UpGraph, gs |-> gs, plus |-> FALSE, keep |-> 0,
    want |-> w] :
     gs \in [1..2 -> {"dag", "loop", "wide"}], w \in {"less", "equal", "greater"}}

\* Most stacks a feed holds.
MaxFeed == 2

\* The feeds of the stacks in S.
Feeds(S) == UNION {[1..n -> S] : n \in 0..MaxFeed}

\* Stacks of two values, A below B: constants and DIEs of two files.
PredValues == {CstValue(1, 0), CstValue(2, 0), DieValue(1, 1, 0), DieValue(2, 1, 0)}

PredStacks == {StackOf(<<a, b>>) : a \in PredValues, b \in PredValues}

Leaf(k) == [k |-> k]

Not(a) == [k |-> "not", a |-> a]

\* The comparison words, their inverted forms, and the conjunctions and
\* disjunctions of either with a comparison word.
Preds ==
  LET ls == {Leaf(k) : k \in Leaves}
      ns == {Not(l) : l \in ls}
  IN ls \cup ns
     \cup {[k |-> c, a |-> a, b |-> b] : c \in {"and", "or"}, a \in ls \cup ns, b \in ls}

PredCfgs ==
  {[kind |-> "pred", p |-> p, feed |-> q] : p \in Preds, q \in Feeds(PredStacks)}

\* Stacks for the words that need a type on TOS: DIE 1 below a DIE, an
\* attribute, a closure over child, a constant or a string.
WordValues ==
  {NodeValue(1, 0), NodeValue(MaxNode, 0), AttrValue(MaxNode - 1, 1, 0),
   ClosureValue("dag", NoFrame), CstValue(1, 0)}

WordStacks == {StackOf(<<NodeValue(1, 0), v>>) : v \in WordValues}

WordCfgs ==
  {[kind |-> k, g |-> "dag", feed |-> q] :
     k \in {"w_apply", "w_unit", "w_child", "w_attribute"}, q \in Feeds(WordStacks)}

\* Most peers of a tine set.
MaxPeers == 3

\* A tine set alone: gs has one entry for every peer.
TineCfgs ==
  {[kind |-> "tine", gu |-> g, gs |-> [k \in 1..n |-> "none"], plus |-> FALSE,
    keep |-> 0] : g \in {"dag", "loop", "wide"}, n \in 2..MaxPeers}

LexicalCfgs ==
  {[kind |-> "lexical", gu |-> UpGraph, gs |-> <<g>>, plus |-> FALSE,
    keep |-> 0] : g \in {"dag", "cycle", "loop", "wide", "none"}}

ScopeCfgs ==
  {[kind |-> "scope", gu |-> UpGraph, gs |-> <<g>>, plus |-> FALSE, keep |-> n,
    want |-> "equal"] : g \in {"dag", "cycle", "wide", "none"}, n \in 1..2}

\* plus stands for the presence of op_lex_closure, keep > 0 for
\* skip_non_closures.
ApplyCfgs ==
  {[kind |-> "apply", gu |-> UpGraph, gs |-> <<g>>, plus |-> l, keep |-> k,
    want |-> "equal"] : g \in {"dag", "cycle", "wide", "none"}, l \in BOOLEAN, k \in 0..1}

MakeOp(c) ==
  CASE c.kind = "or" -> NewOr(c.gu, c.gs)
    [] c.kind = "ifelse" -> NewIfElse(c.gu, c.gs[1], c.gs[2], c.gs[3])
    [] c.kind = "subx" -> NewSubX(c.gu, c.gs[1], c.keep)
    [] c.kind = "capture" -> NewCapture(c.gu, c.gs[1])
    [] c.kind = "closure" -> NewTrClosure(c.gu, c.gs[1], c.plus)
    [] c.kind \in {"merge", "tine"} -> NewMerge(c.gu, c.gs)
    [] c.kind = "lexical" -> NewLexical(c.gu, c.gs[1])
    [] c.kind = "format" -> NewFormat(c.gu, c.gs, <<"lit">>)
    [] c.kind = "any" -> NewAssertAny(c.gu, c.gs[1])
    [] c.kind = "scope" -> NewScope(c.gu, c.gs[1], c.keep)
    [] c.kind = "apply" -> NewApply(c.gu, c.gs[1], c.plus, c.keep > 0)
    [] c.kind = "compare" -> NewAssertCompare(c.gu, c.gs[1], c.gs[2], c.want)
    [] c.kind = "pred" -> NewAssertPred(c.feed)
    [] c.kind = "w_apply" -> NewApplyOnFeed(c.feed)
    [] c.kind = "w_unit" -> NewUnit(c.feed)
    [] c.kind = "w_child" -> NewChildWord(c.feed, c.g)
    [] c.kind = "w_attribute" -> NewAttribute(c.feed)

\* The virtual call of reset () on the operator under test.
OpReset(c, o) ==
  CASE c.kind = "or" -> OrReset(o)
    [] c.kind = "ifelse" -> IfElseReset(o)
    [] c.kind = "subx" -> SubXReset(o)
    [] c.kind = "capture" -> CaptureReset(o)
    [] c.kind = "closure" -> TrReset(o)
    [] c.kind \in {"merge", "tine"} -> MergeReset(o)
    [] c.kind = "lexical" -> LexicalReset(o)
    [] c.kind = "format" -> FormatReset(o)
    [] c.kind \in {"any", "compare"} -> AssertReset(c, o)
    [] c.kind = "scope" -> ScopeReset(o)
    [] c.kind = "apply" -> ApplyReset(o)

\* The virtual call of next () on the operator under test.
OpNext(c, o) ==
  CASE c.kind = "or" -> OrNext(o)
    [] c.kind = "ifelse" -> IfElseNext(o)
    [] c.kind = "subx" -> SubXNext(o)
    [] c.kind = "capture" -> CaptureNext(o)
    [] c.kind = "closure" -> TrNext(o)
    [] c.kind = "merge" -> MergeNext(o)
    [] c.kind = "format" -> FormatNext(o)
    [] c.kind \in {"any", "compare"} -> AssertNext(c, o)
    [] c.kind = "scope" -> ScopeNext(o)
    [] c.kind = "apply" -> ApplyNext(o)

\* What a consumer does to drive the operator on s: reset () on the
\* operator, set_next (s) on the origin below it.
OpPrime(c, o, s) ==
  LET r == OpReset(c, o)
  IN [r EXCEPT !.up.org = OriginSetNext(r.up.org, s)]

\* The stacks the consumer primes with: two DIEs.
Inputs == {StackOf(<<NodeValue(m, 0), NodeValue(n, 0)>>) : m \in Node, n \in Node}

StackIdle == stk = EmptyStack /\ stk_err = FALSE /\ stk_op = "off"

OpInit(cfgs) ==
  /\ StackIdle
  /\ cfg \in cfgs
  /\ op = MakeOp(cfg)
  /\ input = Null
  /\ out = <<>>
  /\ phase = "new"
  /\ drains = FALSE
  /\ prod = Null
  /\ elems = <<>>

\* reset () and set_next (s) by the consumer.
Reprime ==
  /\ \E s \in Inputs :
       /\ op' = OpPrime(cfg, op, s)
       /\ input' = s
  /\ out' = <<>>
  /\ phase' = "run"
  /\ drains' = (phase = "drained")
  /\ UNCHANGED <<cfg, stackVars, elemVars>>

\* A consumer that drives the operator again once next () has returned null
\* (as op_subx and op_capture do with their sub-expression).
Drive == phase # "run" /\ Reprime

\* A consumer that drives the operator again in the middle of an
\* enumeration (as pred_subx_any and the condition of op_ifelse do, which
\* take one result only).
Redrive == phase = "run" /\ Reprime

\* One call of next () on the operator of kind k, r being what it returns
\* and the state it leaves.
Pull(k, r) ==
  /\ cfg.kind = k
  /\ Len(out) < MaxPull
  /\ op' = r.st
  /\ IF r.ret = Null
       THEN phase' = "drained" /\ out' = out
       ELSE phase' = phase /\ out' = Append(out, r.ret)
  /\ UNCHANGED <<cfg, input, drains, stackVars, elemVars>>

OrPull == Pull("or", OrNext(op))

IfElsePull == Pull("ifelse", IfElseNext(op))

SubXPull == Pull("subx", SubXNext(op))

CapturePull == Pull("capture", CaptureNext(op))

TrClosurePull == Pull("closure", TrNext(op))

MergePull == Pull("merge", MergeNext(op))

FormatPull == Pull("format", FormatNext(op))

AssertAnyPull == Pull("any", AssertNext(cfg, op))

AssertComparePull == Pull("compare", AssertNext(cfg, op))

ScopePull == Pull("scope", ScopeNext(op))

ApplyPull == Pull("apply", ApplyNext(op))

SpecOr == OpInit(OrCfgs) /\ [][Drive \/ Redrive \/ OrPull]_vars

SpecIfElse == OpInit(IfElseCfgs) /\ [][Drive \/ Redrive \/ IfElsePull]_vars

SpecSubX == OpInit(SubXCfgs) /\ [][Drive \/ Redrive \/ SubXPull]_vars

SpecCapture == OpInit(CaptureCfgs) /\ [][Drive \/ Redrive \/ CapturePull]_vars

\* The closure operator under a consumer that takes every enumeration to
\* its end.
SpecTrClosure == OpInit(TrClosureCfgs) /\ [][Drive \/ TrClosurePull]_vars

\* The consumer calls next () until it returns null: weak fairness of
\* TrClosurePull, with its enabling condition written out (a call changes
\* the state exactly while phase is "run" and out has room).
SpecTrClosureLive ==
  SpecTrClosure /\ ([]<>(phase # "run" \/ Len(out) >= MaxPull)
                     \/ []<><<TrClosurePull>>_vars)

\* One call of next () on peer k of the tine set; out keeps the stacks
\* handed out together with the peer that took them.
TineTake(k) ==
  LET r == TineNext(op, k)
  IN /\ op' = r.st
     /\ out' = IF r.ret = Null THEN out
               ELSE Append(out, [peer |-> k, stk |-> r.ret])
     /\ phase' = IF r.st.m_done THEN "drained" ELSE "run"

\* The peers of a tine set call next () in any order.
TinePull ==
  /\ cfg.kind = "tine"
  /\ phase = "run"
  /\ Len(out) < MaxPull
  /\ \E k \in DOMAIN op.m_file : TineTake(k)
  /\ UNCHANGED <<cfg, input, drains, stackVars, elemVars>>

\* A tine set whose owner resets it (op_merge::reset) and primes the
\* upstream at any time.
SpecTine == OpInit(TineCfgs) /\ [][Drive \/ Redrive \/ TinePull]_vars

AssertPredPull == Pull("pred", AssertNext(cfg, op))

WordApplyPull == Pull("w_apply", ApplyNext(op))

WordUnitPull == Pull("w_unit", UnitNext(op))

WordChildPull == Pull("w_child", ChildWordNext(op))

WordAttributePull == Pull("w_attribute", AttributeNext(op))

SpecWords ==
  OpInit(WordCfgs)
    /\ [][WordApplyPull \/ WordUnitPull \/ WordChildPull \/ WordAttributePull]_vars

\* op_assert over comparison words and their combinations, on any upstream.
SpecAssert == OpInit(PredCfgs) /\ [][AssertPredPull]_vars

LexicalPull == Pull("lexical", LexicalNext(op, MaxSteps))

\* The closure bound in a scope, under a consumer that may reset and prime
\* the outer scope at any time.
SpecLexical == OpInit(LexicalCfgs) /\ [][Drive \/ Redrive \/ LexicalPull]_vars

AllCfgs ==
  OrCfgs \cup IfElseCfgs \cup SubXCfgs \cup CaptureCfgs \cup TrClosureCfgs
  \cup MergeCfgs \cup FormatCfgs \cup AssertCfgs \cup ScopeCfgs \cup ApplyCfgs

Init == OpInit(AllCfgs)

Next ==
  \/ Drive
  \/ Redrive
  \/ OrPull
  \/ IfElsePull
  \/ SubXPull
  \/ CapturePull
  \/ TrClosurePull
  \/ MergePull
  \/ FormatPull
  \/ AssertAnyPull
  \/ AssertComparePull
  \/ ScopePull
  \/ ApplyPull

\* Every operator under a consumer that may reset and prime it at any time.
Spec == Init /\ [][Next]_vars

\* ----------------------------------------------------- expected results
RECURSIVE Flatten(_)
Flatten(ss) == IF ss = <<>> THEN <<>> ELSE Head(ss) \o Flatten(Tail(ss))

IsPrefix(a, b) == Len(a) <= Len(b) /\ a = SubSeq(b, 1, Len(a))

\* The stacks ss as they are compared, without the positions of values.
KeySeq(ss) == [i \in DOMAIN ss |-> StackKey(ss[i])]

\* The stacks the upstream of the operator under test yields for the
\* primed input (none before the first priming).
UpStacks == IF input = Null THEN <<>> ELSE SubResults(cfg.gu, input)

\* out is what the consumer has been handed of the enumeration expected,
\* in order, and all of it once next () has returned null.
Emits(expected) ==
  /\ IsPrefix(out, expected)
  /\ phase = "drained" => out = expected

\* The results of the first branch (of those of graphs gs, from index i on)
\* that yields anything on u.
RECURSIVE FirstYielding(_, _, _)
FirstYielding(gs, i, u) ==
  IF i > Len(gs) THEN <<>>
  ELSE IF SubResults(gs[i], u) # <<>> THEN SubResults(gs[i], u)
  ELSE FirstYielding(gs, i + 1, u)

OrExpected ==
  Flatten([j \in DOMAIN UpStacks |-> FirstYielding(cfg.gs, 1, UpStacks[j])])

\* C5: for each upstream stack s, Or emits exactly the results of the first
\* branch that yields at least one result on its own copy of s, in that
\* branch's order, and nothing for s if no branch yields.
C5_OrFirstYieldingBranch == cfg.kind = "or" => Emits(OrExpected)

\* An enumeration taken to its end in which, for one upstream stack, the
\* first branch yielded nothing and the second was emitted, and for another
\* the first branch was emitted although the second yields other results.
C5_Witness ==
  /\ cfg.kind = "or" /\ phase = "drained" /\ out # <<>>
  /\ \E j \in DOMAIN UpStacks :
       /\ SubResults(cfg.gs[1], UpStacks[j]) = <<>>
       /\ SubResults(cfg.gs[2], UpStacks[j]) # <<>>
  /\ \E j \in DOMAIN UpStacks :
       /\ SubResults(cfg.gs[1], UpStacks[j]) # <<>>
       /\ SubResults(cfg.gs[2], UpStacks[j]) # <<>>
       /\ SubResults(cfg.gs[1], UpStacks[j]) # SubResults(cfg.gs[2], UpStacks[j])

IfElseExpected ==
  Flatten([j \in DOMAIN UpStacks |->
             IF SubResults(cfg.gs[1], UpStacks[j]) # <<>>
               THEN SubResults(cfg.gs[2], UpStacks[j])
               ELSE SubResults(cfg.gs[3], UpStacks[j])])

\* C6: for each upstream stack s, IfElse emits exactly the results of then
\* on s if cond yields a result on a copy of s, else exactly the results of
\* else on s; nothing of cond and nothing of the other branch.
C6_IfElseSelectedBranch == cfg.kind = "ifelse" => Emits(IfElseExpected)

\* An enumeration taken to its end in which then was emitted for one
\* upstream stack and else for another, the three sub-expressions differing.
C6_Witness ==
  /\ cfg.kind = "ifelse" /\ phase = "drained"
  /\ \E j \in DOMAIN UpStacks :
       /\ SubResults(cfg.gs[1], UpStacks[j]) # <<>>
       /\ SubResults(cfg.gs[2], UpStacks[j]) # <<>>
       /\ SubResults(cfg.gs[2], UpStacks[j]) # SubResults(cfg.gs[1], UpStacks[j])
  /\ \E j \in DOMAIN UpStacks :
       /\ SubResults(cfg.gs[1], UpStacks[j]) = <<>>
       /\ SubResults(cfg.gs[3], UpStacks[j]) # <<>>
       /\ SubResults(cfg.gs[3], UpStacks[j]) # SubResults(cfg.gs[2], UpStacks[j])

\* u followed by the top keep values of r, in the order they have in r.
WithKept(u, r, keep) ==
  StackOf(u.m_values \o SubSeq(r.m_values, Size(r) - keep + 1, Size(r)))

SubXExpected ==
  Flatten([j \in DOMAIN UpStacks |->
             LET rr == SubResults(cfg.gs[1], UpStacks[j])
             IN [i \in DOMAIN rr |-> WithKept(UpStacks[j], rr[i], cfg.keep)]])

\* C7: for each upstream stack s and each result r of inner on a copy of s,
\* SubX emits s followed by the top keep values of r in the order they have
\* in r.
C7_SubXKeepsTopInOrder == cfg.kind = "subx" => Emits(SubXExpected)

\* An enumeration taken to its end that kept two different values of each
\* of several results.
C7_Witness ==
  /\ cfg.kind = "subx" /\ phase = "drained" /\ cfg.keep = 2
  /\ Len(out) >= 2
  /\ \E i \in DOMAIN out : Get(out[i], 0).val # Get(out[i], 1).val

\* The values on top of the stacks rr, in the order of rr.
TopsOf(rr) == [i \in DOMAIN rr |-> rr[i].m_values[Size(rr[i])]]

CaptureExpected ==
  [j \in DOMAIN UpStacks |->
     StackOf(Append(UpStacks[j].m_values,
                    [type |-> T_SEQ,
                     val |-> TopsOf(SubResults(cfg.gs[1], UpStacks[j])),
                     pos |-> 0]))]

\* C8: Capture emits exactly one stack per upstream stack s: s with one Seq
\* on top holding the TOS of every result of inner on s, in order (empty when
\* inner yields nothing).
C8_CaptureOnePerUpstream == cfg.kind = "capture" => Emits(CaptureExpected)

\* An enumeration taken to its end that emitted an empty Seq for one
\* upstream stack and a Seq of two different values for another.
C8_Witness ==
  /\ cfg.kind = "capture" /\ phase = "drained"
  /\ \E i \in DOMAIN out : Top(out[i]).val = <<>>
  /\ \E i \in DOMAIN out :
       /\ Len(Top(out[i]).val) = 2
       /\ Top(out[i]).val[1].val # Top(out[i]).val[2].val

\* ------------------------------------------- comparing sub-expressions
\* The relation want between the DIE a and the DIE b.
Related(want, a, b) ==
  CASE want = "less" -> a.val < b.val
    [] want = "equal" -> a.val = b.val
    [] want = "greater" -> a.val > b.val

\* There are a result of the first sub-expression on u and a result of the
\* second on u whose TOS values are related as the comparison word asks.
SomePairRelated(u) ==
  LET ra == SubResults(cfg.gs[1], u)
      rb == SubResults(cfg.gs[2], u)
  IN \E i \in DOMAIN ra, j \in DOMAIN rb :
       Related(cfg.want, Top(ra[i]), Top(rb[j]))

\* C23: SubXCompare (inner1, inner2, cmp) yields yes on a stack s iff there
\* are a result a of inner1 on s and a result b of inner2 on s such that cmp
\* holds with the TOS of a below the TOS of b, and no otherwise; s is not
\* changed.  (Under Assert: the stacks emitted are the upstream stacks that
\* have such a pair, as the upstream yielded them.)
C23_SubXCompareSomePair ==
  cfg.kind = "compare" =>
    Emits(SelectSeq(UpStacks, LAMBDA u : SomePairRelated(u)))

\* An enumeration taken to its end that emitted one upstream stack and
\* dropped another; for the one emitted, the first pair of results is not
\* related as asked, another pair is.
C23_Witness ==
  /\ cfg.kind = "compare" /\ phase = "drained"
  /\ Len(out) = 1 /\ Len(UpStacks) = 2
  /\ LET ra == SubResults(cfg.gs[1], out[1])
         rb == SubResults(cfg.gs[2], out[1])
     IN /\ Len(ra) = 2 /\ Len(rb) = 2
        /\ ~Related(cfg.want, Top(ra[1]), Top(rb[1]))
        /\ ~Related(cfg.want, Top(ra[1]), Top(rb[2]))

\* ------------------------------------------------- type mismatch on TOS
\* The stacks the feed has handed over so far.
Consumed == SubSeq(cfg.feed, 1, Len(cfg.feed) - Len(op.up.q))

WordKinds == {"w_apply", "w_unit", "w_child", "w_attribute"}

\* next () of the word under test.
WordNext(c, o) ==
  CASE c.kind = "w_apply" -> ApplyNext(o)
    [] c.kind = "w_unit" -> UnitNext(o)
    [] c.kind = "w_child" -> ChildWordNext(o)
    [] c.kind = "w_attribute" -> AttributeNext(o)

RECURSIVE WordDrain(_, _, _)
WordDrain(c, o, fuel) ==
  IF fuel = 0 THEN <<>>
  ELSE LET r == WordNext(c, o)
       IN IF r.ret = Null THEN <<>> ELSE <<r.ret>> \o WordDrain(c, r.st, fuel - 1)

\* What a newly built word of the configuration c yields on the feed q.
WordResults(c, q) == WordDrain(c, MakeOp([c EXCEPT !.feed = q]), MaxPull)

\* The value v has the type the word needs on TOS, a DIE being the only
\* type the words unit, child and attribute take.
FitsDieOnly(k, v) ==
  IF k = "w_apply" THEN v.type = T_CLOSURE ELSE v.type = T_NODE

\* The value v has the type the word needs on TOS.
Fits(k, v) ==
  CASE k = "w_apply" -> v.type = T_CLOSURE
    [] k = "w_unit" -> v.type \in {T_NODE, T_ATTR}
    [] OTHER -> v.type = T_NODE

\* C29 as stated: a stack whose TOS is not of the needed type (no closure
\* for Apply without skip_non_closures; no DIE for unit, child, attribute)
\* gets a diagnostic and is dropped, the later stacks are processed as if it
\* had not been there, and the query is not aborted.
C29_MisfitDroppedDieOnly ==
  cfg.kind \in WordKinds =>
    /\ IsPrefix(out, WordResults(cfg, SelectSeq(cfg.feed,
                       LAMBDA s : FitsDieOnly(cfg.kind, Top(s)))))
    /\ op.diag = Len(SelectSeq(Consumed, LAMBDA s : ~FitsDieOnly(cfg.kind, Top(s))))
    /\ phase = "drained" =>
         /\ op.up.q = <<>>
         /\ out = WordResults(cfg, SelectSeq(cfg.feed,
                     LAMBDA s : FitsDieOnly(cfg.kind, Top(s))))

\* C29, amended: the same with unit taking an attribute as well as a DIE:
\* a stack whose TOS is no closure (Apply without skip_non_closures), no
\* DIE (child, attribute), neither a DIE nor an attribute (unit) gets one
\* diagnostic and is dropped; what the operator yields is what it yields on
\* the upstream without those stacks, and it returns null only when the
\* upstream has no more.
C29_MisfitDropped ==
  cfg.kind \in WordKinds =>
    /\ IsPrefix(out, WordResults(cfg, SelectSeq(cfg.feed,
                       LAMBDA s : Fits(cfg.kind, Top(s)))))
    /\ op.diag = Len(SelectSeq(Consumed, LAMBDA s : ~Fits(cfg.kind, Top(s))))
    /\ phase = "drained" =>
         /\ op.up.q = <<>>
         /\ out = WordResults(cfg, SelectSeq(cfg.feed,
                     LAMBDA s : Fits(cfg.kind, Top(s))))

\* Apply took a constant, complained, and went on to the closure behind it,
\* whose results it yielded before the upstream ended.
C29_Witness ==
  /\ cfg.kind = "w_apply" /\ phase = "drained"
  /\ Len(cfg.feed) = 2
  /\ Top(cfg.feed[1]).type = T_CONST
  /\ Top(cfg.feed[2]).type = T_CLOSURE
  /\ op.diag = 1
  /\ Len(out) = 2

\* ------------------------------------------------- assertions on a feed
\* A is the value below TOS, B the value on TOS.
ValA(s) == Get(s, 1)

ValB(s) == Get(s, 0)

Holds(p, s) == PredEval(p, s).res = "yes"

\* C21: Assert (p) emits exactly the upstream stacks on which p yields yes,
\* in upstream order and unchanged; a stack on which p yields no or fail is
\* dropped and Assert goes on to the next upstream stack (so the stack it
\* took last, when it returns one, is a stack it returns, and it returns
\* null only when the upstream has no more).
C21_AssertEmitsYesStacks ==
  cfg.kind = "pred" =>
    /\ out = SelectSeq(Consumed, LAMBDA s : Holds(cfg.p, s))
    /\ (phase # "drained" /\ Consumed # <<>>) =>
         Holds(cfg.p, Consumed[Len(Consumed)])
    /\ phase = "drained" => op.up.q = <<>>

\* An upstream of two stacks taken to its end: the predicate failed on the
\* first, which was dropped, and the second was emitted.
C21_Witness ==
  /\ cfg.kind = "pred" /\ phase = "drained"
  /\ Len(cfg.feed) = 2
  /\ PredEval(cfg.p, cfg.feed[1]).res = "fail"
  /\ out = <<cfg.feed[2]>>

Ordered(a, b) ==
  IF a.type = b.type THEN Cmp(a, b)
  ELSE IF a.type < b.type THEN "less" ELSE "greater"

\* C24: for A below TOS and B on TOS, ?lt holds iff A is less than B, ?gt
\* iff A is greater than B and ?eq iff they are equal, values of one
\* variant ordered by cmp and values of different variants by type code (A
\* less than B when the type code of A is the smaller).
C24_OrderedByCmpThenTypeCode ==
  (cfg.kind = "pred" /\ cfg.p.k \in Leaves) =>
    \A i \in DOMAIN op.log :
      LET e == op.log[i]
          rel == Ordered(ValA(e.stk), ValB(e.stk))
      IN rel # "fail" => (e.res = "yes" <=> rel = WantOf(cfg.p.k))

\* cmp is called on the two top values of s and returns fail.
CmpFails(s) ==
  ValA(s).type = ValB(s).type /\ Cmp(ValA(s), ValB(s)) = "fail"

\* C25: when cmp of the two top values returns fail, ?eq, ?lt and ?gt yield
\* fail with a diagnostic, and so do !eq, !lt and !gt; neither the positive
\* nor the negated assertion lets the stack through.
C25_FailedCmpFailsBothWays ==
  (cfg.kind = "pred"
   /\ (cfg.p.k \in Leaves \/ (cfg.p.k = "not" /\ cfg.p.a.k \in Leaves))) =>
    /\ \A i \in DOMAIN op.log :
         CmpFails(op.log[i].stk) => op.log[i].res = "fail" /\ op.log[i].diag = 1
    /\ \A j \in DOMAIN out : ~CmpFails(out[j])

\* !eq was asked about two DIEs of different files, dropped that stack and
\* emitted the next one.
C25_Witness ==
  /\ cfg.kind = "pred" /\ cfg.p = Not(Leaf("eq"))
  /\ Len(op.log) = 2
  /\ CmpFails(op.log[1].stk)
  /\ out = <<op.log[2].stk>>

\* ------------------------------------------------------- format strings
RECURSIVE Strings(_, _)
\* What the i-th stringer of the chain yields when the origin of the chain
\* holds the stack s: the pair (s, "") beyond the last stringer_op; else,
\* for every pair (t, suffix) of the stringer upstream and every result r
\* of the sub-expression on t, r without its TOS and the rendering of that
\* TOS before the suffix.
Strings(i, s) ==
  IF i > Len(cfg.gs) THEN <<[stk |-> s, str |-> <<>>]>>
  ELSE Flatten([p \in DOMAIN Strings(i + 1, s) |->
         [r \in DOMAIN SubResults(cfg.gs[i], Strings(i + 1, s)[p].stk) |->
            [stk |-> Pop(SubResults(cfg.gs[i], Strings(i + 1, s)[p].stk)[r]),
             str |-> Show(Top(SubResults(cfg.gs[i], Strings(i + 1, s)[p].stk)[r]))
                       \o Strings(i + 1, s)[p].str]]])

\* What Format yields for the upstream stack s: the text of the literal
\* before every string, the strings numbered from 0.
FormatFor(s) ==
  [p \in DOMAIN Strings(1, s) |->
     Push(Strings(1, s)[p].stk, StrValue(<<"lit">> \o Strings(1, s)[p].str, p - 1))]

FormatExpected == Flatten([j \in DOMAIN UpStacks |-> FormatFor(UpStacks[j])])

\* The positions of the values on top of the stacks ss.
TopPositions(ss) == [i \in DOMAIN ss |-> Top(ss[i]).pos]

\* C19: the Str values Format pushes have the positions 0, 1, 2, .. in the
\* order of emission for one upstream stack; the count starts at 0 again
\* for the next upstream stack and after reset ().
C19_FormatPositions ==
  cfg.kind = "format" =>
     /\ \A i \in DOMAIN out : Top(out[i]).type = T_STR
     /\ IsPrefix(TopPositions(out), TopPositions(FormatExpected))
     /\ phase = "drained" => Len(out) = Len(FormatExpected)

\* In an enumeration that followed a reset, two upstream stacks gave two
\* strings each: position 1 is followed by position 0.
C19_Witness ==
  /\ cfg.kind = "format"
  /\ phase = "drained"
  /\ drains
  /\ TopPositions(out) = <<0, 1, 0, 1>>

\* C20: StringerOp yields, for every pair (s, suffix) from upstream and
\* every result r of its sub-expression primed with s, r without its TOS
\* and the rendering of that TOS followed by the suffix, and then goes on
\* to the next pair; StringerLit puts its text before the suffix; a chain
\* of several StringerOps yields every combination of their results.
C20_StringerCombinations ==
  cfg.kind = "format" =>
     /\ IsPrefix(KeySeq(out), KeySeq(FormatExpected))
     /\ phase = "drained" => KeySeq(out) = KeySeq(FormatExpected)

\* Both stringers of the chain had two results for one upstream stack, and
\* the four combinations have come out.
C20_Witness ==
  /\ cfg.kind = "format"
  /\ phase = "drained"
  /\ \E j \in DOMAIN UpStacks :
       /\ Len(Strings(2, UpStacks[j])) = 2
       /\ Len(Strings(1, UpStacks[j])) = 4
  /\ Len(out) >= 4

C17_ScopeRestoresIncomingFrame ==
  cfg.kind = "lexical" =>
     /\ \A e \in op.handed :
          e.by \in {"i", "o"} => e.gave = e.got /\ e.ran # e.gave
     /\ op.i_primed => op.heap[op.own_i] = NewFrame(op.in_i, 1)
     /\ op.o_primed =>
          /\ op.heap[op.own_o].m_parent = op.in_o
          /\ Len(op.heap[op.own_o].m_values) = 2
     /\ \A i \in DOMAIN out : FramesOfStack(out[i]) = {NoFrame}

\* The inner scope, whose incoming frame is the frame of the outer scope,
\* has emitted a stack and is still primed.
C17_Witness ==
  /\ cfg.kind = "lexical"
  /\ op.i_primed
  /\ out # <<>>
  /\ \E e \in op.handed :
       /\ e.by = "i"
       /\ e.got # NoFrame
       /\ e.ran \notin {NoFrame, e.got}
       /\ e.gave = e.got

\* What the program yields when every application of the closure gives the
\* children of X: for every upstream stack u with X on top, the children of
\* X pushed by the first application, and on each of these the children of
\* X pushed by the second.
LexicalExpected ==
  Flatten([j \in DOMAIN UpStacks |->
    Flatten([i \in DOMAIN SubResults(cfg.gs[1], UpStacks[j]) |->
      SubResults(cfg.gs[1],
                 Push(SubResults(cfg.gs[1], UpStacks[j])[i], Top(UpStacks[j])))])])

\* C18: a closure bound to a variable in a scope can be applied any number
\* of times in that scope with the same results, and the unlinking of
\* frames that Apply and Scope do never takes away a frame, a parent link
\* or a bound slot that a later application reads.
C18_BoundClosureAppliesAgain ==
  cfg.kind = "lexical" => ~op.broken /\ Emits(LexicalExpected)

\* The closure has been applied three times on one upstream stack: once in
\* the inner scope and, after emissions of both scopes, twice outside it.
C18_Witness ==
  /\ cfg.kind = "lexical"
  /\ phase = "drained"
  /\ Len(out) >= 4
  /\ Len(SubResults(cfg.gs[1], UpStacks[1])) = 2
  /\ {e.by : e \in op.handed} = {"a", "b", "i", "o"}

\* ------------------------------------------------------------- tine peers
\* The stacks peer k has been handed, in order.
Received(k) ==
  LET mine == SelectSeq(out, LAMBDA e : e.peer = k)
  IN [i \in DOMAIN mine |-> mine[i].stk]

\* How many stacks the tine set has pulled from upstream: those the
\* upstream has no longer to give.
Pulled == Len(UpStacks) - Len(SubDrain(op.up, <<>>, MaxPull))

\* C15: under any order of next () calls of the K peers of a tine set,
\* every stack pulled from upstream is copied into all K slots, each peer
\* receives each upstream stack exactly once and in upstream order, and no
\* new upstream stack is pulled while a slot is unclaimed: every peer has
\* received, or still has in its slot, every stack pulled so far.
C15_TineFansOut ==
  (cfg.kind = "tine" /\ input # Null) =>
     \A k \in DOMAIN op.m_file :
        /\ IsPrefix(Received(k), UpStacks)
        /\ Len(Received(k)) + (IF op.m_file[k] = Null THEN 0 ELSE 1) = Pulled
        /\ op.m_file[k] # Null => op.m_file[k] = UpStacks[Pulled]
        /\ op.m_done => Received(k) = UpStacks

\* Two upstream stacks have gone to three peers: the last peer called
\* first, and the second peer took the first stack last and the second
\* stack first.
C15_Witness ==
  /\ cfg.kind = "tine"
  /\ op.m_done
  /\ Len(UpStacks) = 2
  /\ Len(cfg.gs) = 3
  /\ Len(out) = 6
  /\ out[1].peer = 3
  /\ out[2].peer = 1
  /\ out[3].peer = 2
  /\ out[4].peer = 2

\* ------------------------------------------------------------ merge order
RECURSIVE Interleave(_)
\* One element of each of the sequences in turn, until all are used up.
Interleave(seqs) ==
  IF \A k \in DOMAIN seqs : seqs[k] = <<>> THEN <<>>
  ELSE Flatten([k \in DOMAIN seqs |->
                  IF seqs[k] = <<>> THEN <<>> ELSE <<Head(seqs[k])>>])
       \o Interleave([k \in DOMAIN seqs |->
                        IF seqs[k] = <<>> THEN <<>> ELSE Tail(seqs[k])])

\* C14 as the specification states it: Merge emits one result from each
\* branch in turn (b1, b2, .., bk, b1, ..) until all branches are drained,
\* not all results of one branch before it moves to the next.
C14_RoundRobin ==
  cfg.kind = "merge" =>
     Emits(Flatten([j \in DOMAIN UpStacks |->
             Interleave([k \in DOMAIN cfg.gs |->
                           SubResults(cfg.gs[k], UpStacks[j])])]))

RECURSIVE MergeBlocks(_, _, _, _)
\* What Merge emits from the point on where it asks branch it, the branches
\* of full not having taken the j-th upstream stack yet: a branch that has
\* not taken it gives all its results for it; a branch that has, while
\* others have not, gives the turn to the next branch; a branch that finds
\* that all have taken it goes on to the next upstream stack.
MergeBlocks(j, full, it, fuel) ==
  IF fuel = 0 THEN <<>>
  ELSE IF it \in full
    THEN SubResults(cfg.gs[it], UpStacks[j])
         \o MergeBlocks(j, full \ {it}, it, fuel - 1)
  ELSE IF full # {}
    THEN MergeBlocks(j, full, (it % Len(cfg.gs)) + 1, fuel - 1)
  ELSE IF j < Len(UpStacks)
    THEN MergeBlocks(j + 1, DOMAIN cfg.gs, it, fuel - 1)
  ELSE <<>>

MergeExpected == MergeBlocks(0, {}, 1, MaxSteps)

\* C14 (amended): Merge does not take one result from each branch in turn.
\* It stays with one branch and emits all the results that branch has for
\* the current upstream stack; when the branch returns null it moves to
\* the next branch, wrapping around. The branch that is asked when every
\* branch has taken the current upstream stack pulls the next one and is
\* the first to emit for it. So for every upstream stack the results of a
\* branch come as one block, every branch once.
C14_BranchByBranch == cfg.kind = "merge" => Emits(MergeExpected)

\* The first branch has given its two results for the first upstream stack
\* in a row, the second branch its first result after them, and there has
\* been a second upstream stack.
C14_Witness ==
  /\ cfg.kind = "merge"
  /\ phase = "drained"
  /\ Len(UpStacks) = 2
  /\ Len(SubResults(cfg.gs[1], UpStacks[1])) = 2
  /\ SubResults(cfg.gs[2], UpStacks[1]) # <<>>
  /\ SubSeq(out, 1, 2) = SubResults(cfg.gs[1], UpStacks[1])
  /\ out[3] = Head(SubResults(cfg.gs[2], UpStacks[1]))

\* ---------------------------------------------- closure of the inner relation
\* The DIEs one application of child (graph g) reaches from the DIEs of S.
Succ(g, S) == UNION {{Children(g, n)[i] : i \in DOMAIN Children(g, n)} : n \in S}

RECURSIVE Reach(_, _, _)
\* S and what up to k further applications reach from it.
Reach(g, S, k) == IF k = 0 THEN S ELSE Reach(g, S \cup Succ(g, S), k - 1)

\* The keys of the stacks reachable from u by one or more applications of
\* the inner operator (which replaces the DIE on TOS by one of its children).
ReachPlus(g, u) ==
  {StackKey(StackOf(Append(Pop(u).m_values, NodeValue(n, 0)))) :
     n \in Reach(g, Succ(g, {Top(u).val}), MaxNode)}

\* ... by zero or more applications.
ReachStar(g, u) == {StackKey(u)} \cup ReachPlus(g, u)

ClosureOf(u) ==
  IF cfg.plus THEN ReachPlus(cfg.gs[1], u) ELSE ReachStar(cfg.gs[1], u)

RECURSIVE SumTo(_, _)
\* How many stacks the closures of the first j upstream stacks hold.
SumTo(ups, j) ==
  IF j = 0 THEN 0 ELSE SumTo(ups, j - 1) + Cardinality(ClosureOf(ups[j]))

\* The part of out emitted for the j-th upstream stack.
Segment(j) ==
  SubSeq(out, SumTo(UpStacks, j - 1) + 1, SumTo(UpStacks, j))

KeysOf(ss) == {StackKey(ss[i]) : i \in DOMAIN ss}

\* C10: the results of TrClosure (f, star) on an input stack i are exactly
\* the stacks reachable from i by zero or more applications of f (i among
\* them), those of TrClosure (f, plus) exactly the stacks reachable by one or
\* more applications (i among them iff i is reachable from itself).
C10_ClosureIsReachableSet ==
  (cfg.kind = "closure" /\ phase = "drained") =>
     /\ Len(out) = SumTo(UpStacks, Len(UpStacks))
     /\ \A j \in DOMAIN UpStacks : KeysOf(Segment(j)) = ClosureOf(UpStacks[j])

\* How often the stack of key k is among ss.
Occ(k, ss) == Cardinality({i \in DOMAIN ss : StackKey(ss[i]) = k})

\* The upstream stacks whose closure holds the stack of key k.
UpsReaching(k) == {j \in DOMAIN UpStacks : k \in ClosureOf(UpStacks[j])}

\* C11: within the enumeration for one upstream stack TrClosure yields each
\* distinct stack at most once, and it yields a stack again for every later
\* upstream stack whose closure holds it: a stack is handed out as often as
\* there are upstream stacks reaching it, never more.
C11_OncePerUpstreamStack ==
  cfg.kind = "closure" =>
     /\ \A i \in DOMAIN out :
          Occ(StackKey(out[i]), out) <= Cardinality(UpsReaching(StackKey(out[i])))
     /\ phase = "drained" =>
          \A j \in DOMAIN UpStacks : \A k \in ClosureOf(UpStacks[j]) :
             Occ(k, out) = Cardinality(UpsReaching(k))

\* How many stacks the closures of all upstream stacks hold.
Total == SumTo(UpStacks, Len(UpStacks))

\* The part of out emitted for the j-th upstream stack, counted from the
\* end of out: what came since the first upstream stack was pulled.
TailSegment(j) ==
  SubSeq(out, Len(out) - Total + SumTo(UpStacks, j - 1) + 1,
         Len(out) - Total + SumTo(UpStacks, j))

\* After how many applications of the inner operator the stack s is first
\* reached from the upstream stack u.
Depth(u, s) ==
  LET start == IF cfg.plus THEN Succ(cfg.gs[1], {Top(u).val}) ELSE {Top(u).val}
      least == CHOOSE d \in 0..(MaxNode + 1) :
                 /\ Top(s).val \in Reach(cfg.gs[1], start, d)
                 /\ \A e \in 0..(d - 1) : Top(s).val \notin Reach(cfg.gs[1], start, e)
  IN IF cfg.plus THEN least + 1 ELSE least

\* C12 as the specification states it: for one input stack every stack
\* first reached after k applications of inner is emitted before any stack
\* first reached after k + 1 applications.
C12_BreadthByFrontier ==
  (cfg.kind = "closure" /\ phase = "drained" /\ Len(out) >= Total) =>
     \A j \in DOMAIN UpStacks : \A a, b \in DOMAIN TailSegment(j) :
        a < b => Depth(UpStacks[j], TailSegment(j)[a])
                   <= Depth(UpStacks[j], TailSegment(j)[b])

RECURSIVE NewOnes(_, _)
\* The stacks of ss that are neither in seen nor earlier in ss, in order.
NewOnes(ss, seen) ==
  IF ss = <<>> THEN <<>>
  ELSE IF StackKey(Head(ss)) \in seen THEN NewOnes(Tail(ss), seen)
  ELSE <<Head(ss)>> \o NewOnes(Tail(ss), seen \cup {StackKey(Head(ss))})

RECURSIVE Walk(_, _, _, _)
\* What is emitted from a worklist on: the last stack of the worklist is
\* expanded, its new results are emitted in the order of the inner operator
\* and go to the back of the worklist.
Walk(g, work, seen, fuel) ==
  IF work = <<>> \/ fuel = 0 THEN <<>>
  ELSE LET fresh == NewOnes(SubResults(g, work[Len(work)]), seen)
       IN fresh \o Walk(g, SubSeq(work, 1, Len(work) - 1) \o fresh,
                        seen \cup KeysOf(fresh), fuel - 1)

\* The enumeration for the upstream stack u.
WorklistOrder(u) ==
  IF cfg.plus THEN Walk(cfg.gs[1], <<u>>, {}, MaxSteps)
  ELSE <<u>> \o Walk(cfg.gs[1], <<u>>, {StackKey(u)}, MaxSteps)

ClosureExpected ==
  Flatten([j \in DOMAIN UpStacks |-> WorklistOrder(UpStacks[j])])

\* C12 (amended): TrClosure does not emit breadth-by-frontier. It expands
\* the stack at the back of its worklist, the one emitted last among those
\* not yet expanded; the new results of that one application are emitted
\* together, in the order of inner, and the last of them is expanded next.
\* What is emitted from the first upstream stack on is this order for every
\* upstream stack in turn, and all of out after a reset that followed a
\* drain.
C12_WorklistOrder ==
  cfg.kind = "closure" =>
     /\ phase = "drained" =>
          /\ Len(out) >= Len(ClosureExpected)
          /\ SubSeq(out, Len(out) - Len(ClosureExpected) + 1, Len(out))
               = ClosureExpected
     /\ drains => Emits(ClosureExpected)

\* A stack first reached after more applications has been emitted before
\* one first reached after fewer.
C12_Witness ==
  /\ cfg.kind = "closure"
  /\ phase = "drained"
  /\ Len(out) = Total
  /\ \E j \in DOMAIN UpStacks : \E a, b \in DOMAIN TailSegment(j) :
       /\ a < b
       /\ Depth(UpStacks[j], TailSegment(j)[a])
            > Depth(UpStacks[j], TailSegment(j)[b])

\* The graphs that are trees.
Trees == {"tree", "deep"}

Reverse(ss) == [i \in DOMAIN ss |-> ss[Len(ss) + 1 - i]]

RECURSIVE PreOrder(_, _, _)
\* The stack s, then the subtrees below its children, in sibling order.
PreOrder(g, s, fuel) ==
  IF fuel = 0 THEN <<s>>
  ELSE <<s>> \o Flatten([i \in DOMAIN SubResults(g, s) |->
                           PreOrder(g, SubResults(g, s)[i], fuel - 1)])

\* C13 as the specification states it: for a tree, root child* yields
\* every node exactly once and in pre-order.
C13_PreOrder ==
  (cfg.kind = "closure" /\ ~cfg.plus /\ cfg.gs[1] \in Trees
     /\ phase = "drained") =>
     KeySeq(out) = KeySeq(Flatten([j \in DOMAIN UpStacks |->
                     PreOrder(cfg.gs[1], UpStacks[j], MaxSteps)]))

RECURSIVE Below(_, _, _)
\* The children of s in sibling order, then what is below the last child,
\* then what is below the child before it, and so on.
Below(g, s, fuel) ==
  IF fuel = 0 THEN <<>>
  ELSE SubResults(g, s)
       \o Flatten(Reverse([i \in DOMAIN SubResults(g, s) |->
                             Below(g, SubResults(g, s)[i], fuel - 1)]))

\* C13 (amended): for a tree, root child* yields every node exactly once,
\* but not in pre-order: the root, then its children one after the other in
\* sibling order, then in the same way what is below the last child, then
\* what is below the child before it. Every node comes after its parent;
\* the subtree of a later sibling comes before that of an earlier one. For
\* root with children b, c and one grandchild d the order is root, b, c, d,
\* under whichever child d hangs.
C13_ChildrenThenLastSubtree ==
  (cfg.kind = "closure" /\ ~cfg.plus /\ cfg.gs[1] \in Trees) =>
     /\ Emits(Flatten([j \in DOMAIN UpStacks |->
           <<UpStacks[j]>> \o Below(cfg.gs[1], UpStacks[j], MaxSteps)]))
     /\ \A i, j \in DOMAIN out : StackKey(out[i]) = StackKey(out[j]) => i = j

\* A tree with a grandchild below the first child has been walked: the
\* second child came before that grandchild.
C13_Witness ==
  /\ cfg.kind = "closure" /\ ~cfg.plus /\ cfg.gs[1] \in Trees
  /\ phase = "drained"
  /\ \E i, j, k \in DOMAIN out :
       /\ i < j /\ j < k
       /\ Children(cfg.gs[1], Top(out[1]).val) = <<Top(out[i]).val, Top(out[j]).val>>
       /\ Top(out[k]).val \in Succ(cfg.gs[1], {Top(out[i]).val})

\* ------------------------------------------------------ reset and origins
RECURSIVE OpDrain(_, _, _)
\* The results of next () on the operator o of configuration c until null
\* (fuel calls at most).
OpDrain(c, o, fuel) ==
  IF fuel = 0 THEN <<>>
  ELSE LET r == OpNext(c, o)
       IN IF r.ret = Null THEN <<>> ELSE <<r.ret>> \o OpDrain(c, r.st, fuel - 1)

\* What a newly constructed operator of the configuration under test yields
\* when primed with the input.
FreshResults == OpDrain(cfg, OpPrime(cfg, MakeOp(cfg), input), MaxPull)

\* C1: an operator that is reset and primed after next () has returned null
\* yields the same sequence of stacks as a newly constructed one primed with
\* the same stack.
C1_ResetAfterDrainIsFresh == (drains /\ input # Null) => Emits(FreshResults)

\* A plus closure, reset and primed after it was drained, that was drained
\* again and yielded several stacks.
C1_Witness ==
  /\ drains /\ phase = "drained"
  /\ cfg.kind = "closure" /\ cfg.plus
  /\ Len(out) >= 3

\* C2: wherever in an enumeration the operator is reset and primed, what it
\* yields afterwards is what a newly constructed operator yields for the new
\* input; nothing is left over from the input driven before.
C2_ResetAnywhereIsFresh == input # Null => Emits(FreshResults)

\* The origins of the operator o of configuration c.
OriginsOf(c, o) ==
  {o.up.org}
  \cup (CASE c.kind = "or" -> {o.branches[i].org : i \in DOMAIN o.branches}
          [] c.kind = "ifelse" -> {o.cond.org, o.thn.org, o.els.org}
          [] c.kind \in {"subx", "capture", "closure", "any"} -> {o.inner.org}
          [] c.kind = "format" ->
               {o.sorg} \cup {o.sops[i].sub.org : i \in DOMAIN o.sops}
          [] c.kind \in {"scope", "compare"} -> {o.org}
          [] c.kind = "apply" -> IF o.m_op = Null THEN {} ELSE {o.m_op.org}
          [] OTHER -> {})

\* C3: no call of set_next has found the slot of its origin full or the
\* origin not reset since its previous set_next.
C3_SetNextAssertionsHold == \A g \in OriginsOf(cfg, op) : ~g.failed

\* A comparison of two sub-expressions on one origin that was driven again
\* in the middle of an enumeration and then taken to its end: the shared
\* origin was primed for both sub-expressions and is empty.
C3_Witness ==
  /\ cfg.kind = "compare" /\ phase = "drained" /\ ~drains
  /\ Len(out) >= 2
  /\ ~op.org.m_reset /\ op.org.m_stk = Null /\ ~op.org.failed

\* ------------------------------------------------------------------- elem
\* op_elem_seq::operate on the stack s: the sequence on TOS is popped and a
\* seq_elem_producer made of it; m_vf is what is left of s.
ElemOperateOn(s) ==
  [m_seq |-> Top(s).val, m_idx |-> 0, m_vf |-> Pop(s), done |-> FALSE]

\* seq_relem_producer::next stamping the index of the element in the
\* sequence.
SeqRelemProducerNextIndex(pr) ==
  IF pr.m_idx < Len(pr.m_seq)
    THEN [st |-> [pr EXCEPT !.m_idx = @ + 1],
          ret |-> [pr.m_seq[Len(pr.m_seq) - pr.m_idx]
                     EXCEPT !.pos = Len(pr.m_seq) - 1 - pr.m_idx]]
    ELSE [st |-> [pr EXCEPT !.done = TRUE], ret |-> Null]

\* seq_relem_producer::next: a clone of the element m_idx places from the
\* end, stamped with m_idx as its position.
SeqRelemProducerNext(pr) ==
  IF pr.m_idx < Len(pr.m_seq)
    THEN [st |-> [pr EXCEPT !.m_idx = @ + 1],
          ret |-> [pr.m_seq[Len(pr.m_seq) - pr.m_idx] EXCEPT !.pos = pr.m_idx]]
    ELSE [st |-> [pr EXCEPT !.done = TRUE], ret |-> Null]

\* seq_relem_producer::next in the place of seq_elem_producer::next.
RelemProducerNext(pr) == SeqRelemProducerNext(pr)

\* seq_elem_producer::next: a clone of the element at m_idx, stamped with
\* m_idx as its position.
ElemProducerNext(pr) ==
  IF pr.m_idx < Len(pr.m_seq)
    THEN [st |-> [pr EXCEPT !.m_idx = @ + 1],
          ret |-> [pr.m_seq[pr.m_idx + 1] EXCEPT !.pos = pr.m_idx]]
    ELSE [st |-> [pr EXCEPT !.done = TRUE], ret |-> Null]

\* elem takes the stack Capture emitted last.
ElemOperate ==
  /\ cfg.kind = "capture"
  /\ out # <<>>
  /\ prod' = ElemOperateOn(out[Len(out)])
  /\ elems' = <<>>
  /\ UNCHANGED <<opVars, stackVars>>

\* One call of next () on the producer.
ElemNext ==
  /\ prod # Null
  /\ LET r == ElemProducerNext(prod)
     IN /\ prod' = r.st
        /\ elems' = IF r.ret = Null THEN elems ELSE Append(elems, r.ret)
  /\ UNCHANGED <<opVars, stackVars>>

SpecCaptureElem ==
  OpInit(CaptureCfgs) /\ [][Drive \/ CapturePull \/ ElemOperate \/ ElemNext]_vars

\* Longest sequence elem and relem are given.
MaxLen == 3

\* The elements of those sequences: two constants, each at two positions
\* of the stream that produced it.
SeqElems == {CstValue(c, pos) : c \in 1..2, pos \in 0..1}

Seqs(n) == UNION {[1..k -> SeqElems] : k \in 0..n}

\* A stack with a DIE and, on TOS, a sequence; word is the word applied.
SeqInit ==
  /\ StackIdle
  /\ cfg \in {[kind |-> "seq", word |-> w] : w \in {"elem", "relem"}}
  /\ op = Null
  /\ input \in {StackOf(<<NodeValue(1, 0), SeqValue(vv, 0)>>) : vv \in Seqs(MaxLen)}
  /\ out = <<>> /\ phase = "new" /\ drains = FALSE
  /\ prod = Null /\ elems = <<>>

\* op_elem_seq::operate and op_relem_seq::operate on the stack.
SeqOperate ==
  /\ cfg.kind = "seq" /\ prod = Null
  /\ prod' = ElemOperateOn(input)
  /\ UNCHANGED <<opVars, stackVars, elems>>

\* One call of next () on the producer, r being what it returns and the
\* state it leaves.
ProducerStep(r) ==
  /\ prod' = r.st
  /\ elems' = IF r.ret = Null THEN elems ELSE Append(elems, r.ret)
  /\ UNCHANGED <<opVars, stackVars>>

SeqElemNext ==
  cfg.kind = "seq" /\ cfg.word = "elem" /\ prod # Null
  /\ ProducerStep(ElemProducerNext(prod))

SeqRelemNext ==
  cfg.kind = "seq" /\ cfg.word = "relem" /\ prod # Null
  /\ ProducerStep(SeqRelemProducerNext(prod))

\* elem and relem on a sequence.
SpecSeqElem == SeqInit /\ [][SeqOperate \/ SeqElemNext \/ SeqRelemNext]_vars

\* C26: for every sequence of n elements, elem yields n values that are the
\* elements in order with positions 0, 1, .., n-1, and relem yields the
\* elements in reverse order, also with positions 0, 1, .., n-1; the
\* sequence itself, as it is held elsewhere, is not changed.
C26_ElemAndRelem ==
  (cfg.kind = "seq" /\ prod # Null) =>
    LET seq == Top(input).val
        n == Len(seq)
    IN /\ prod.m_seq = seq
       /\ Len(elems) <= n
       /\ prod.done => Len(elems) = n
       /\ \A i \in DOMAIN elems :
            /\ elems[i].pos = i - 1
            /\ StripPos(elems[i]) =
                 StripPos(seq[IF cfg.word = "elem" THEN i ELSE n + 1 - i])

\* relem has gone through a sequence of three elements whose first and
\* last differ and that all carried the position 1 in the sequence.
C26_Witness ==
  /\ cfg.kind = "seq" /\ cfg.word = "relem"
  /\ prod # Null /\ prod.done
  /\ Len(elems) = 3
  /\ StripPos(elems[1]) # StripPos(elems[3])
  /\ \A i \in 1..3 : Top(input).val[i].pos = 1

\* The values vv as cmp sees them.
Stripped(vv) == [i \in DOMAIN vv |-> StripPos(vv[i])]

\* C9: Capture (inner) followed by elem yields, on every input stack, the
\* same values as the TOS values inner yields on that input, in the same
\* order, compared by cmp.
C9_CaptureThenElem ==
  prod # Null =>
    LET inner == Stripped(TopsOf(SubResults(cfg.gs[1], prod.m_vf)))
    IN /\ IsPrefix(Stripped(elems), inner)
       /\ prod.done => Stripped(elems) = inner

\* elem has gone through a captured sequence of two different values.
C9_Witness ==
  /\ prod # Null /\ prod.done
  /\ Len(elems) = 2
  /\ StripPos(elems[1]) # StripPos(elems[2])

\* ---------------------------------------------- ?find, ?starts and ?ends
\* The lambda of the three predicates: a->cmp (*b) == cmp_result::equal.
CmpEqual(a, b) == Cmp(a, b) = "equal"

\* Do the elements of hay from index first + 1 on begin with need?
MatchAt(hay, first, need) ==
  \A j \in 1..Len(need) : CmpEqual(hay[first + j], need[j])

\* std::search (hay.begin (), hay.end (), need.begin (), need.end (), ..):
\* the distance from hay.begin () of the iterator returned, which is that
\* of the first match, hay.begin () for an empty need, hay.end () when
\* there is no match.
Search(hay, need) ==
  IF \E i \in 0..(Len(hay) - Len(need)) : MatchAt(hay, i, need)
    THEN CHOOSE i \in 0..(Len(hay) - Len(need)) :
           /\ MatchAt(hay, i, need)
           /\ \A k \in 0..(i - 1) : ~MatchAt(hay, k, need)
    ELSE Len(hay)

\* pred_find_seq::result: the iterator returned is compared with
\* haystack.get_seq ()->end ().
PredFindSeq(hay, need) == PredResult(Search(hay, need) # Len(hay))

\* pred_starts_seq::result.
PredStartsSeq(hay, need) ==
  PredResult(Len(hay) >= Len(need) /\ MatchAt(hay, 0, need))

\* pred_ends_seq::result.
PredEndsSeq(hay, need) ==
  PredResult(Len(hay) >= Len(need) /\ MatchAt(hay, Len(hay) - Len(need), need))

\* Two sequences on a stack, the haystack below the needle, and the three
\* predicates not yet asked.
FindInit ==
  /\ StackIdle
  /\ cfg = [kind |-> "find"]
  /\ op = [find |-> "none", starts |-> "none", ends |-> "none"]
  /\ input \in {StackOf(<<SeqValue(h, 0), SeqValue(n, 0)>>) :
                  h \in Seqs(MaxLen), n \in Seqs(MaxLen - 1)}
  /\ out = <<>> /\ phase = "new" /\ drains = FALSE
  /\ prod = Null /\ elems = <<>>

FindStep ==
  /\ cfg.kind = "find" /\ op.find = "none"
  /\ op' = [op EXCEPT !.find = PredFindSeq(Get(input, 1).val, Get(input, 0).val)]
  /\ UNCHANGED <<cfg, input, out, phase, drains, stackVars, elemVars>>

StartsStep ==
  /\ cfg.kind = "find" /\ op.starts = "none"
  /\ op' = [op EXCEPT !.starts = PredStartsSeq(Get(input, 1).val, Get(input, 0).val)]
  /\ UNCHANGED <<cfg, input, out, phase, drains, stackVars, elemVars>>

EndsStep ==
  /\ cfg.kind = "find" /\ op.ends = "none"
  /\ op' = [op EXCEPT !.ends = PredEndsSeq(Get(input, 1).val, Get(input, 0).val)]
  /\ UNCHANGED <<cfg, input, out, phase, drains, stackVars, elemVars>>

SpecFind == FindInit /\ [][FindStep \/ StartsStep \/ EndsStep]_vars

\* The elements of the sequence without their positions.
Plain(vv) == [i \in DOMAIN vv |-> vv[i].val]

\* N occurs in H as a run of consecutive elements.
Occurs(H, N) ==
  \E i \in 0..(Len(H) - Len(N)) : SubSeq(Plain(H), i + 1, i + Len(N)) = Plain(N)

\* C30: for sequences H (below TOS) and N (TOS), ?find holds iff N occurs
\* in H as a run of consecutive elements equal by cmp, ?starts iff N is a
\* prefix of H, ?ends iff N is a suffix of H, empty sequences included; so
\* ?find holds whenever ?starts or ?ends does.
C30_FindStartsEnds ==
  cfg.kind = "find" =>
    LET H == Get(input, 1).val
        N == Get(input, 0).val
    IN /\ op.find # "none" => (op.find = "yes" <=> Occurs(H, N))
       /\ op.starts # "none" =>
            (op.starts = "yes" <=>
               Len(N) <= Len(H) /\ SubSeq(Plain(H), 1, Len(N)) = Plain(N))
       /\ op.ends # "none" =>
            (op.ends = "yes" <=>
               Len(N) <= Len(H)
                 /\ SubSeq(Plain(H), Len(H) - Len(N) + 1, Len(H)) = Plain(N))
       /\ (op.find # "none" /\ "yes" \in {op.starts, op.ends}) => op.find = "yes"

\* ------------------------------------------ producers of debug-info values
\* A value producer of builtin-dw.cc returns values [val, pos] until it
\* returns null; done says that it has.
\*
\* elem_loclist_producer over a location expression of n operators: val is
\* the index of the operator taken from the expression.
NewLoclistProducer(n, forward) ==
  [m_n |-> n, m_i |-> 0, m_forward |-> forward, done |-> FALSE]

\* elem_loclist_producer::next.
LoclistNext(pr) ==
  LET idx == pr.m_i
      st == [pr EXCEPT !.m_i = @ + 1]
  IN IF idx < pr.m_n
       THEN LET at == IF pr.m_forward THEN idx ELSE pr.m_n - 1 - idx
            IN [st |-> st, ret |-> [val |-> at, pos |-> at]]
       ELSE [st |-> [st EXCEPT !.done = TRUE], ret |-> Null]

\* elem_aset_producer over the coverage cov, a sequence of ranges
\* [start, length].
NewAsetProducer(cov, forward) ==
  [cov |-> cov, m_idx |-> 0, m_ai |-> 0, m_i |-> 0, m_forward |-> forward,
   done |-> FALSE]

\* cov.at (idx ()) of elem_aset_producer::next.
AsetRange(pr) ==
  pr.cov[IF pr.m_forward THEN pr.m_idx + 1 ELSE Len(pr.cov) - pr.m_idx]

\* elem_aset_producer::next once the range to take from is settled.
AsetEmit(pr) ==
  LET r == AsetRange(pr)
      ai == IF pr.m_forward THEN pr.m_ai ELSE r.length - 1 - pr.m_ai
  IN [st |-> [pr EXCEPT !.m_ai = @ + 1, !.m_i = @ + 1],
      ret |-> [val |-> r.start + ai, pos |-> pr.m_i]]

\* elem_aset_producer::next.
AsetNext(pr) ==
  IF pr.m_idx >= Len(pr.cov)
    THEN [st |-> [pr EXCEPT !.done = TRUE], ret |-> Null]
  ELSE IF pr.m_ai >= AsetRange(pr).length
    THEN IF pr.m_idx + 1 >= Len(pr.cov)
           THEN [st |-> [pr EXCEPT !.m_idx = @ + 1, !.done = TRUE], ret |-> Null]
           ELSE AsetEmit([pr EXCEPT !.m_idx = @ + 1, !.m_ai = 0])
  ELSE AsetEmit(pr)

\* op_range_aset::producer over the coverage cov.
NewRangeProducer(cov) == [m_a |-> cov, m_i |-> 0, done |-> FALSE]

\* op_range_aset::producer::next.
RangeNext(pr) ==
  IF pr.m_i >= Len(pr.m_a)
    THEN [st |-> [pr EXCEPT !.done = TRUE], ret |-> Null]
    ELSE [st |-> [pr EXCEPT !.m_i = @ + 1],
          ret |-> [val |-> <<pr.m_a[pr.m_i + 1]>>, pos |-> pr.m_i]]

\* The DIE 3 is a DW_TAG_imported_unit; the DIEs of the partial unit it
\* imports, the root left out, are 4 and 5.
IsImport(die) == die = 3

ImportedRange == <<4, 5>>

\* die_it_producer (entry and child) over the range dies: m_stack holds, for
\* every range, the DIEs not yet taken.
NewDieItProducer(dies, cooked) ==
  [m_stack |-> <<dies>>, m_i |-> 0, cooked |-> cooked, done |-> FALSE]

RECURSIVE DieItNext(_)
\* die_it_producer::next, with drop_finished_imports and
\* import_partial_units.
DieItNext(pr) ==
  IF pr.m_stack = <<>>
    THEN [st |-> [pr EXCEPT !.done = TRUE], ret |-> Null]
  ELSE LET d == Len(pr.m_stack)
           back == pr.m_stack[d]
       IN IF back = <<>>
            THEN DieItNext([pr EXCEPT !.m_stack = SubSeq(@, 1, d - 1)])
          ELSE IF pr.cooked /\ IsImport(Head(back))
            THEN DieItNext([pr EXCEPT !.m_stack =
                              Append([@ EXCEPT ![d] = Tail(back)], ImportedRange)])
          ELSE [st |-> [pr EXCEPT !.m_stack[d] = Tail(back), !.m_i = @ + 1],
                ret |-> [val |-> Head(back), pos |-> pr.m_i]]

\* dwarf_unit_producer over the units cus, each given by the tag of its CU
\* DIE: "compile", "partial" or "type".
NewUnitProducer(cus, cooked) ==
  [m_cuit |-> cus, m_i |-> 0, cooked |-> cooked, done |-> FALSE]

RECURSIVE UnitProducerNext(_)
\* dwarf_unit_producer::next, with next_acceptable_unit.
UnitProducerNext(pr) ==
  IF pr.m_cuit = <<>>
    THEN [st |-> [pr EXCEPT !.done = TRUE], ret |-> Null]
  ELSE IF pr.cooked /\ Head(pr.m_cuit) = "partial"
    THEN UnitProducerNext([pr EXCEPT !.m_cuit = Tail(@)])
  ELSE [st |-> [pr EXCEPT !.m_cuit = Tail(@), !.m_i = @ + 1],
        ret |-> [val |-> Len(pr.m_cuit), pos |-> pr.m_i]]

\* An attribute of a DIE: its name and, for a reference, the DIE it leads
\* to (0 otherwise).
Attr(code, ref) == [code |-> code, ref |-> ref]

\* attr_should_be_integrated.
AttrShouldBeIntegrated(code) == code \notin {"sibling", "declaration"}

IsIntegrating(code) == code \in {"specification", "abstract_origin"}

\* attribute_producer::schedule.
Schedule(pr, at) == [pr EXCEPT !.m_next = Append(@, at.ref)]

\* attribute_producer::next_die, m_next being non-empty.
NextDie(pr) ==
  [pr EXCEPT !.m_die = pr.m_next[Len(pr.m_next)],
             !.m_it = pr.m_dwctx[pr.m_next[Len(pr.m_next)]],
             !.m_next = SubSeq(@, 1, Len(@) - 1)]

\* attribute_producer over the DIE die of the Dwarf db, which gives the
\* attributes of every DIE; m_it holds the attributes still to come.
NewAttributeProducer(db, die, cooked) ==
  [m_dwctx |-> db, m_die |-> die, m_it |-> db[die], m_i |-> 0, cooked |-> cooked,
   m_secondary |-> FALSE, m_seen |-> {}, m_next |-> <<>>, done |-> FALSE]

\* The end of attribute_producer::next: the attribute is noted as seen and
\* returned as an attribute of m_die.
AttributeYield(pr, at) ==
  [st |-> [pr EXCEPT !.m_seen = @ \cup {at.code}, !.m_i = @ + 1],
   ret |-> [val |-> [code |-> at.code, die |-> pr.m_die], pos |-> pr.m_i]]

RECURSIVE AttributeProducerNextNoSeen(_)
\* attribute_producer::next without the check of seen ().
AttributeProducerNextNoSeen(pr) ==
  IF pr.m_it = <<>>
    THEN IF ~pr.cooked \/ pr.m_next = <<>>
           THEN [st |-> [pr EXCEPT !.done = TRUE], ret |-> Null]
           ELSE AttributeProducerNextNoSeen(NextDie([pr EXCEPT !.m_secondary = TRUE]))
    ELSE LET at == Head(pr.m_it)
             taken == [pr EXCEPT !.m_it = Tail(@)]
         IN IF pr.cooked /\ IsIntegrating(at.code)
              THEN AttributeYield(Schedule(taken, at), at)
            ELSE IF pr.m_secondary /\ ~AttrShouldBeIntegrated(at.code)
              THEN AttributeProducerNextNoSeen(taken)
            ELSE AttributeYield(taken, at)

RECURSIVE AttributeProducerNext(_)
\* attribute_producer::next.
AttributeProducerNext(pr) ==
  IF pr.m_it = <<>>
    THEN IF ~pr.cooked \/ pr.m_next = <<>>
           THEN [st |-> [pr EXCEPT !.done = TRUE], ret |-> Null]
           ELSE AttributeProducerNext(NextDie([pr EXCEPT !.m_secondary = TRUE]))
    ELSE LET at == Head(pr.m_it)
             taken == [pr EXCEPT !.m_it = Tail(@)]
         IN IF pr.cooked /\ IsIntegrating(at.code)
              THEN AttributeYield(Schedule(taken, at), at)
            ELSE IF pr.m_secondary /\ ~AttrShouldBeIntegrated(at.code)
              THEN AttributeProducerNext(taken)
            ELSE IF pr.cooked /\ at.code \in pr.m_seen
              THEN AttributeProducerNext(taken)
            ELSE AttributeYield(taken, at)

\* The attributes of a DIE that has the plain attributes of the set plain, a
\* DW_AT_specification leading to spec and a DW_AT_abstract_origin leading
\* to orig (0 for none of either), the specification coming first or not.
DieAttrs(plain, spec, orig, spec_first) ==
  LET s == IF spec = 0 THEN <<>> ELSE <<Attr("specification", spec)>>
      o == IF orig = 0 THEN <<>> ELSE <<Attr("abstract_origin", orig)>>
      pl(code) == IF code \in plain THEN <<Attr(code, 0)>> ELSE <<>>
  IN pl("name") \o (IF spec_first THEN s \o o ELSE o \o s)
       \o pl("sibling") \o pl("declaration")

\* Dwarfs of three DIEs: DIE 1 may refer to 2 and 3, DIE 2 to 1 and 3 and
\* DIE 3 to 1, so that the references may form cycles.
DieDbs ==
  {<<d1, d2, d3>> :
     d1 \in {DieAttrs(p, s, o, f) : p \in SUBSET {"name", "declaration"},
                                    s \in {0, 2, 3}, o \in {0, 2, 3}, f \in BOOLEAN},
     d2 \in {DieAttrs(p, s, 0, TRUE) :
              p \in {{}, {"name"}, {"name", "sibling", "declaration"}}, s \in {0, 1, 3}},
     d3 \in {DieAttrs(p, s, 0, TRUE) : p \in SUBSET {"name"}, s \in {0, 1}}}

HasAttr(db, a, atname) == \E i \in DOMAIN db[a] : db[a][i].code = atname

\* dwpp_formref_die (dwpp_attr (a, atname)).
RefOf(db, a, atname) ==
  db[a][CHOOSE i \in DOMAIN db[a] : db[a][i].code = atname].ref

NotFound == [found |-> FALSE, die |-> 0, diverges |-> FALSE]

RECURSIVE FindAttribute(_, _, _, _, _)
\* find_attribute (a, atname, d, ret): the DIE whose attribute *ret is, or
\* no attribute found. The recursion is cut when it is fuel calls deep: with
\* fuel above the number of DIEs a DIE is then on the path of calls twice,
\* and the inner call repeats the outer one without end.
FindAttribute(db, a, atname, cooked, fuel) ==
  IF fuel = 0 THEN [found |-> FALSE, die |-> 0, diverges |-> TRUE]
  ELSE IF HasAttr(db, a, atname) THEN [found |-> TRUE, die |-> a, diverges |-> FALSE]
  ELSE IF cooked /\ AttrShouldBeIntegrated(atname)
    THEN LET first == IF HasAttr(db, a, "specification")
                        THEN FindAttribute(db, RefOf(db, a, "specification"),
                                           atname, cooked, fuel - 1)
                        ELSE NotFound
         IN IF first.found \/ first.diverges THEN first
            ELSE IF HasAttr(db, a, "abstract_origin")
              THEN FindAttribute(db, RefOf(db, a, "abstract_origin"),
                                 atname, cooked, fuel - 1)
              ELSE NotFound
  ELSE NotFound

\* The sequences of up to n elements of S.
UpTo(S, n) == UNION {[1..k -> S] : k \in 0..n}

\* Coverages: ranges in ascending order that do not touch.
Coverages ==
  LET a == [start |-> 0, length |-> 1]
      b == [start |-> 4, length |-> 2]
  IN {<<>>, <<a>>, <<b>>, <<a, b>>}

\* The producers the words unit, entry, child, attribute, range, elem and
\* relem make.
Producers ==
  {[kind |-> "loclist", pr |-> NewLoclistProducer(n, f)] :
     n \in 0..MaxLen, f \in BOOLEAN}
  \cup {[kind |-> "aset", pr |-> NewAsetProducer(c, f)] :
          c \in Coverages, f \in BOOLEAN}
  \cup {[kind |-> "range", pr |-> NewRangeProducer(c)] : c \in Coverages}
  \cup {[kind |-> "die_it", pr |-> NewDieItProducer(dd, c)] :
          dd \in UpTo({1, 2, 3}, MaxLen), c \in BOOLEAN}
  \cup {[kind |-> "unit", pr |-> NewUnitProducer(cc, c)] :
          cc \in UpTo({"compile", "partial", "type"}, MaxLen), c \in BOOLEAN}
  \cup {[kind |-> "attribute", pr |-> NewAttributeProducer(db, 1, c)] :
          db \in {d \in DieDbs : d[2] = <<Attr("name", 0)>> /\ d[3] = <<>>},
          c \in BOOLEAN}

ProducerInit ==
  /\ StackIdle
  /\ \E p \in Producers : cfg = p /\ prod = p.pr
  /\ op = Null /\ input = Null
  /\ out = <<>> /\ phase = "new" /\ drains = FALSE
  /\ elems = <<>>

LoclistStep ==
  cfg.kind = "loclist" /\ ~prod.done /\ ProducerStep(LoclistNext(prod))

AsetStep ==
  cfg.kind = "aset" /\ ~prod.done /\ ProducerStep(AsetNext(prod))

RangeStep ==
  cfg.kind = "range" /\ ~prod.done /\ ProducerStep(RangeNext(prod))

DieItStep ==
  cfg.kind = "die_it" /\ ~prod.done /\ ProducerStep(DieItNext(prod))

UnitStep ==
  cfg.kind = "unit" /\ ~prod.done /\ ProducerStep(UnitProducerNext(prod))

\* Most values of an enumeration that are kept and counted, and most DIEs
\* waiting in m_next.
MaxYield == 6

MaxPending == 3

\* One call of next () on an attribute_producer; beyond MaxYield values the
\* values are no longer kept nor counted.
AttributeRecord(r) ==
  /\ prod' = [r.st EXCEPT !.m_i = IF @ > MaxYield THEN MaxYield ELSE @]
  /\ elems' = IF r.ret = Null \/ Len(elems) >= MaxYield
                THEN elems ELSE Append(elems, r.ret)
  /\ UNCHANGED <<opVars, stackVars>>

AttributeStep ==
  /\ cfg.kind = "attribute" /\ ~prod.done
  /\ Len(prod.m_next) <= MaxPending
  /\ AttributeRecord(AttributeProducerNext(prod))

\* The value producers of the debug-info words, each called until it
\* returns null.
SpecProducer ==
  ProducerInit
  /\ [][LoclistStep \/ AsetStep \/ RangeStep \/ DieItStep \/ UnitStep
         \/ AttributeStep]_vars

\* C27: every value producer of the debug-info vocabulary stamps the i-th
\* value it emits, counting from 0, with position i, whatever the direction
\* of the iteration.
C27_PositionIsStreamIndex ==
  cfg.kind \in {"loclist", "aset", "range", "die_it", "unit", "attribute"} =>
    \A i \in DOMAIN elems : elems[i].pos = i - 1

\* The indices of the units whose tag is in tags, in file order.
UnitsTagged(cus, tags) ==
  SelectSeq([i \in DOMAIN cus |-> i], LAMBDA i : cus[i] \in tags)

\* The indices, in the file, of the units yielded so far.
UnitsYielded ==
  [i \in DOMAIN elems |-> Len(cfg.pr.m_cuit) - elems[i].val + 1]

\* C33: on a cooked Dwarf unit yields only the units whose CU DIE has the
\* tag DW_TAG_compile_unit, in file order with positions 0, 1, ..; on a raw
\* Dwarf it yields every unit.
C33_CookedUnitsAreCompileUnits ==
  cfg.kind = "unit" =>
    LET want == UnitsTagged(cfg.pr.m_cuit,
                            IF cfg.pr.cooked THEN {"compile"}
                            ELSE {"compile", "partial", "type"})
    IN /\ IsPrefix(UnitsYielded, want)
       /\ prod.done => UnitsYielded = want
       /\ \A i \in DOMAIN elems : elems[i].pos = i - 1

\* ------------------------------------- attribute, @AT_X and ?AT_X on a DIE
NotAsked == [asked |-> FALSE, diverges |-> FALSE]

\* DIE 1 of a Dwarf, raw or cooked, and the attribute name x of the words
\* @AT_x and ?AT_x.
AttributeInit ==
  /\ StackIdle
  /\ \E db \in DieDbs, c \in BOOLEAN, x \in {"name", "declaration"} :
       /\ cfg = [kind |-> "attribute", pr |-> NewAttributeProducer(db, 1, c), x |-> x]
       /\ prod = NewAttributeProducer(db, 1, c)
  /\ op = [atval |-> NotAsked, atname |-> NotAsked]
  /\ input = Null
  /\ out = <<>> /\ phase = "new" /\ drains = FALSE
  /\ elems = <<>>

\* op_atval_die::operate, up to at_value: the attribute found.
AtvalOperate ==
  /\ cfg.kind = "attribute" /\ op.atval = NotAsked
  /\ op' = [op EXCEPT !.atval = FindAttribute(cfg.pr.m_dwctx, 1, cfg.x, cfg.pr.cooked,
                                               Len(cfg.pr.m_dwctx) + 1)]
  /\ UNCHANGED <<cfg, input, out, phase, drains, stackVars, elemVars>>

\* pred_atname_die::result.
AtnameResult ==
  /\ cfg.kind = "attribute" /\ op.atname = NotAsked
  /\ op' = [op EXCEPT !.atname = FindAttribute(cfg.pr.m_dwctx, 1, cfg.x, cfg.pr.cooked,
                                                Len(cfg.pr.m_dwctx) + 1)]
  /\ UNCHANGED <<cfg, input, out, phase, drains, stackVars, elemVars>>

SpecAttribute == AttributeInit /\ [][AttributeStep \/ AtvalOperate \/ AtnameResult]_vars

\* The consumer of attribute calls next () until it returns null.
SpecAttributeLive == SpecAttribute /\ WF_vars(AttributeStep)

\* The DIEs that db leads to from the DIEs of D through any number of
\* DW_AT_specification and DW_AT_abstract_origin.
RECURSIVE Referred(_, _)
Referred(db, D) ==
  LET more == D \cup (UNION {{db[d][i].ref : i \in DOMAIN db[d]} : d \in D} \ {0})
  IN IF more = D THEN D ELSE Referred(db, more)

\* The attributes of DIE d as attribute yields them.
OwnAttrs(db, d) == [i \in DOMAIN db[d] |-> [code |-> db[d][i].code, die |-> d]]

Yielded == [i \in DOMAIN elems |-> elems[i].val]

\* C34: on a raw DIE attribute yields exactly the attributes of the DIE, in
\* order. On a cooked DIE it yields the attributes of the DIE first and then
\* those of the DIEs reached through DW_AT_specification and
\* DW_AT_abstract_origin, never DW_AT_sibling or DW_AT_declaration of a
\* referenced DIE and never a name it has yielded, DW_AT_specification and
\* DW_AT_abstract_origin excepted.
C34_AttributeIntegration ==
  cfg.kind = "attribute" =>
    LET db == cfg.pr.m_dwctx
        own == OwnAttrs(db, 1)
    IN /\ IsPrefix(Yielded, own) \/ IsPrefix(own, Yielded)
       /\ ~cfg.pr.cooked => (prod.done => Yielded = own) /\ Len(Yielded) <= Len(own)
       /\ \A i \in DOMAIN Yielded :
            i > Len(own) =>
              /\ Yielded[i].die \in Referred(db, {1})
              /\ Yielded[i] \in {OwnAttrs(db, Yielded[i].die)[k] :
                                     k \in DOMAIN db[Yielded[i].die]}
              /\ Yielded[i].code \notin {"sibling", "declaration"}
       /\ \A i \in DOMAIN Yielded : \A j \in DOMAIN Yielded :
            (i < j /\ Yielded[i].code = Yielded[j].code) =>
              Yielded[i].code \in {"specification", "abstract_origin"}
       /\ (cfg.pr.cooked /\ prod.done /\ Len(elems) < MaxYield) =>
            \A d \in Referred(db, {1}) : \A k \in DOMAIN db[d] :
              AttrShouldBeIntegrated(db[d][k].code) =>
                \E i \in DOMAIN Yielded : Yielded[i].code = db[d][k].code

\* DIE 1, cooked, has a name and a specification; the DIE referred to has a
\* name, a sibling and a declaration, none of which came out.
C34_Witness ==
  /\ cfg.kind = "attribute"
  /\ cfg.pr.cooked /\ prod.done
  /\ cfg.pr.m_dwctx[1] = <<Attr("name", 0), Attr("specification", 2)>>
  /\ cfg.pr.m_dwctx[2] = <<Attr("name", 0), Attr("sibling", 0), Attr("declaration", 0)>>
  /\ Len(elems) = 2

\* The attributes named x that attribute yielded: what attribute ?AT_x
\* lets through.
YieldedNamed(x) == SelectSeq(Yielded, LAMBDA a : a.code = x)

\* C35: ?AT_X holds iff attribute yields an attribute named X for the DIE,
\* and @AT_X takes its value from the attribute of the same owning DIE that
\* attribute ?AT_X yields, also when a DW_AT_specification and a
\* DW_AT_abstract_origin both lead to DIEs that carry X.
C35_SameIntegrationRules ==
  (cfg.kind = "attribute" /\ prod.done /\ Len(elems) < MaxYield) =>
    /\ op.atname # NotAsked => (op.atname.found <=> YieldedNamed(cfg.x) # <<>>)
    /\ op.atval # NotAsked =>
         /\ op.atval.found <=> YieldedNamed(cfg.x) # <<>>
         /\ op.atval.found => YieldedNamed(cfg.x) = <<[code |-> cfg.x, die |-> op.atval.die]>>

\* C39: on a cooked DIE the enumeration done by attribute and the lookup
\* done by @AT_X and ?AT_X end after finitely many steps, whatever the
\* references between the DIEs are, cycles included. (m_next grows beyond
\* MaxPending only when the references form a cycle; that case is not held
\* against the enumeration here.)
C39_EnumerationAndLookupEnd ==
  /\ <>(prod.done \/ Len(prod.m_next) > MaxPending)
  /\ [](~op.atval.diverges /\ ~op.atname.diverges)

\* ------------------------------------------------------------ address sets
\* The addresses a coverage holds, a coverage being a sequence of ranges
\* [start, length].
Addrs(cov) ==
  UNION {cov[i].start..(cov[i].start + cov[i].length - 1) : i \in DOMAIN cov}

SetMin(S) == CHOOSE x \in S : \A y \in S : x <= y

RECURSIVE CovOf(_)
\* The coverage of the addresses S: its maximal runs in ascending order.
CovOf(S) ==
  IF S = {} THEN <<>>
  ELSE LET lo == SetMin(S)
           hi == CHOOSE h \in S : /\ lo..h \subseteq S
                                  /\ h + 1 \notin S
                                  /\ \A k \in S : lo..k \subseteq S => k <= h
       IN <<[start |-> lo, length |-> hi - lo + 1]>> \o CovOf(S \ (lo..hi))

\* coverage::add (start, length): overlapping and adjacent ranges merge,
\* and no empty range is kept.
CovAdd(cov, start, length) == CovOf(Addrs(cov) \cup (start..(start + length - 1)))

\* coverage::add_all (other).
CovAddAll(cov, other) == CovOf(Addrs(cov) \cup Addrs(other))

\* coverage::is_covered (start, length).
IsCovered(cov, start, length) ==
  \E i \in DOMAIN cov :
    cov[i].start <= start /\ start + length <= cov[i].start + cov[i].length

\* addressify: a negative constant becomes 0 (with a warning).
Addressify(c) == IF c < 0 THEN 0 ELSE c

\* op_aset_cst_cst::operate without the swap.
AsetCstCstNoSwap(a, b) ==
  LET av == Addressify(a)
      bv == Addressify(b)
  IN CovAdd(<<>>, av, bv - av)

\* op_aset_cst_cst::operate.
AsetCstCst(a, b) ==
  LET av == Addressify(a)
      bv == Addressify(b)
  IN IF av > bv THEN CovAdd(<<>>, bv, av - bv) ELSE CovAdd(<<>>, av, bv - av)

\* op_add_aset_aset::operate.
AddAsetAset(a, b) == CovAddAll(a, b)

\* pred_containsp_aset_cst::result.
ContainspAsetCst(a, b) == PredResult(IsCovered(a, Addressify(b), 1))

RECURSIVE SumLengths(_, _)
\* The loop of op_length_aset::operate from the range i (counted from 0) on.
SumLengths(cov, i) ==
  IF i < Len(cov) THEN cov[i + 1].length + SumLengths(cov, i + 1) ELSE 0

\* op_length_aset::operate counting the ranges.
LengthAsetRanges(cov) == Len(cov)

\* op_length_aset::operate.
LengthAset(cov) == SumLengths(cov, 0)

\* Highest address of the programs under test.
MaxAddr == 3

\* The programs  a1 b1 aset (a2 b2 aset add ..) , followed by x ?contains,
\* by length, or by elem or relem: ranges holds the pairs a, b.
AsetCfgs ==
  {[kind |-> "aset_words", ranges |-> rr, x |-> x, forward |-> f] :
     rr \in UNION {[1..n -> (-1..MaxAddr) \X (-1..MaxAddr)] : n \in 1..2},
     x \in -1..MaxAddr, f \in BOOLEAN}

AsetInit ==
  /\ StackIdle
  /\ cfg \in AsetCfgs
  /\ op = [cov |-> <<>>, built |-> 0, contains |-> "none", length |-> -1]
  /\ input = Null
  /\ out = <<>> /\ phase = "new" /\ drains = FALSE
  /\ prod = Null /\ elems = <<>>

AsetWord(o) ==
  /\ cfg.kind = "aset_words"
  /\ op' = o
  /\ UNCHANGED <<cfg, input, out, phase, drains, stackVars, elemVars>>

AsetOperate ==
  /\ op.built = 0
  /\ AsetWord([op EXCEPT !.built = 1,
                         !.cov = AsetCstCst(cfg.ranges[1][1], cfg.ranges[1][2])])

AsetAddOperate ==
  /\ op.built > 0 /\ op.built < Len(cfg.ranges)
  /\ AsetWord([op EXCEPT !.built = @ + 1,
                         !.cov = AddAsetAset(@, AsetCstCst(cfg.ranges[op.built + 1][1],
                                                           cfg.ranges[op.built + 1][2]))])

AsetContains ==
  /\ op.built = Len(cfg.ranges) /\ op.contains = "none"
  /\ AsetWord([op EXCEPT !.contains = ContainspAsetCst(op.cov, cfg.x)])

AsetLength ==
  /\ op.built = Len(cfg.ranges) /\ op.length = -1
  /\ AsetWord([op EXCEPT !.length = LengthAset(op.cov)])

\* elem or relem on the address set: the producer is made.
AsetElemOperate ==
  /\ cfg.kind = "aset_words"
  /\ op.built = Len(cfg.ranges) /\ prod = Null
  /\ prod' = NewAsetProducer(op.cov, cfg.forward)
  /\ UNCHANGED <<opVars, stackVars, elems>>

AsetElemNext ==
  /\ cfg.kind = "aset_words"
  /\ prod # Null
  /\ ~prod.done
  /\ ProducerStep(AsetNext(prod))

SpecAset ==
  AsetInit
  /\ [][AsetOperate \/ AsetAddOperate \/ AsetContains \/ AsetLength
         \/ AsetElemOperate \/ AsetElemNext]_vars

Lower(a, b) == IF a < b THEN a ELSE b

Higher(a, b) == IF a < b THEN b ELSE a

\* C31: for non-negative a, b and x,  a b aset x ?contains  holds iff
\* min (a, b) <= x < max (a, b), whichever of a and b comes first.
C31_AsetContainsHalfOpen ==
  (/\ cfg.kind = "aset_words" /\ Len(cfg.ranges) = 1 /\ op.contains # "none"
   /\ cfg.ranges[1][1] >= 0 /\ cfg.ranges[1][2] >= 0 /\ cfg.x >= 0) =>
    (op.contains = "yes" <=>
       /\ Lower(cfg.ranges[1][1], cfg.ranges[1][2]) <= cfg.x
       /\ cfg.x < Higher(cfg.ranges[1][1], cfg.ranges[1][2]))

\* MaxAddr 0 aset: the higher address, which came first, is not in the set.
C31_Witness ==
  /\ cfg.kind = "aset_words" /\ Len(cfg.ranges) = 1
  /\ cfg.ranges[1] = <<MaxAddr, 0>>
  /\ cfg.x = MaxAddr
  /\ op.contains = "no"

\* The addresses the ranges of the program span, negative operands taken
\* for 0.
Spanned ==
  UNION {Lower(Addressify(cfg.ranges[i][1]), Addressify(cfg.ranges[i][2]))
           ..(Higher(Addressify(cfg.ranges[i][1]), Addressify(cfg.ranges[i][2])) - 1) :
         i \in DOMAIN cfg.ranges}

\* C32: length yields the number of addresses the set covers; elem yields
\* that many addresses, each covered by the set, pairwise distinct, in
\* ascending order, and relem the same addresses in descending order.
C32_LengthAndElem ==
  (cfg.kind = "aset_words" /\ op.built = Len(cfg.ranges)) =>
    /\ op.length # -1 => op.length = Cardinality(Spanned)
    /\ \A i \in DOMAIN elems : elems[i].val \in Spanned
    /\ \A i \in DOMAIN elems : \A j \in DOMAIN elems :
         i < j => IF cfg.forward THEN elems[i].val < elems[j].val
                                 ELSE elems[i].val > elems[j].val
    /\ (prod # Null /\ prod.done) => Len(elems) = Cardinality(Spanned)

\* relem on a set of two ranges that do not touch, taken to its end.
C32_Witness ==
  /\ cfg.kind = "aset_words" /\ ~cfg.forward
  /\ prod # Null /\ prod.done
  /\ Len(op.cov) = 2
  /\ op.length = Len(elems)
  /\ Len(elems) >= 2

\* ------------------------------------------------------------ parent across imports

\* The Dwarf files walked here. DIE 1 is the root of a compile unit, DIEs 2
\* and 3 are the roots of partial units, DIE 4 imports the unit of 2, and DIE
\* 8 is either an import of the unit of 3 or a plain DIE. parent [d] is 0
\* for the root of a unit; import [d] is the root of the unit a
\* DW_TAG_imported_unit DIE refers to with DW_AT_import, and 0 elsewhere.
Dwarfs ==
  {[parent |-> <<0, 0, 0, p4, 1, 2, p7, p8, 3>>,
    tag |-> <<"compile_unit", "partial_unit", "partial_unit", "imported_unit",
              "other", "other", "other", t8, "other">>,
    import |-> <<0, 0, 0, 2, 0, 0, 0, IF t8 = "imported_unit" THEN 3 ELSE 0, 0>>] :
     p4 \in {1, 5}, p7 \in {2, 6}, p8 \in {2, 6}, t8 \in {"imported_unit", "other"}}

RECURSIVE SortedSeq(_)
SortedSeq(S) ==
  IF S = {} THEN <<>>
  ELSE LET lo == CHOOSE x \in S : \A y \in S : x <= y
       IN <<lo>> \o SortedSeq(S \ {lo})

\* child_iterator over the children of d, in the order of their offsets.
DieChildren(f, d) == SortedSeq({c \in DOMAIN f.parent : f.parent[c] = d})

RECURSIVE AllDies(_, _)
RECURSIVE AllDiesOf(_, _)
\* all_dies_iterator from d to the end of its subtree: d and the DIEs under
\* it in the order of the file.
AllDies(f, d) == <<d>> \o AllDiesOf(f, DieChildren(f, d))

AllDiesOf(f, ds) ==
  IF ds = <<>> THEN <<>> ELSE AllDies(f, Head(ds)) \o AllDiesOf(f, Tail(ds))

\* get_it_range <It> (cudie, skip): the DIEs from the first to the end of the
\* range. The child_iterator range always leaves out the DIE passed in.
GetItRange(f, it, cudie, skip) ==
  IF it = "child" THEN DieChildren(f, cudie)
  ELSE IF skip THEN Tail(AllDies(f, cudie)) ELSE AllDies(f, cudie)

\* A value_die: the DIE and the chain of the DIEs where partial units were
\* imported, the outermost import first. The constructor without an import
\* argument makes a value with no chain.
ValueDie(die, import) == [die |-> die, import |-> import]

\* value_die::get_import.
GetImport(a) ==
  ValueDie(a.import[Len(a.import)], SubSeq(a.import, 1, Len(a.import) - 1))

\* die_it_producer <It>: m_stack holds for every range the DIEs not yet
\* taken, m_import the chain of import points.
NewDieProducer(f, it, die, cooked) ==
  [f |-> f, it |-> it, m_stack |-> <<GetItRange(f, it, die, FALSE)>>,
   m_import |-> <<>>, m_i |-> 0, cooked |-> cooked, done |-> FALSE]

\* import_partial_units holds for the producer pr.
IsImportPoint(pr) ==
  LET die == Head(pr.m_stack[Len(pr.m_stack)])
  IN pr.f.tag[die] = "imported_unit" /\ pr.f.import[die] # 0

\* import_partial_units, when it returns true.
ImportPartialUnits(pr) ==
  LET d == Len(pr.m_stack)
      die == Head(pr.m_stack[d])
  IN [pr EXCEPT !.m_import = Append(@, die),
                !.m_stack = Append([@ EXCEPT ![d] = Tail(@)],
                                   GetItRange(pr.f, pr.it, pr.f.import[die], TRUE))]

\* drop_finished_imports, when it returns true.
DropFinishedImports(pr) ==
  [pr EXCEPT !.m_stack = SubSeq(@, 1, Len(@) - 1),
             !.m_import = IF @ # <<>> THEN SubSeq(@, 1, Len(@) - 1) ELSE @]

RECURSIVE DieProducerNext(_)
\* die_it_producer::next.
DieProducerNext(pr) ==
  IF pr.m_stack = <<>>
    THEN [st |-> [pr EXCEPT !.done = TRUE], ret |-> Null]
  ELSE IF pr.m_stack[Len(pr.m_stack)] = <<>>
    THEN DieProducerNext(DropFinishedImports(pr))
  ELSE IF pr.cooked /\ IsImportPoint(pr)
    THEN DieProducerNext(ImportPartialUnits(pr))
  ELSE LET d == Len(pr.m_stack)
       IN [st |-> [pr EXCEPT !.m_stack[d] = Tail(@), !.m_i = @ + 1],
           ret |-> [val |-> ValueDie(Head(pr.m_stack[d]), pr.m_import), pos |-> pr.m_i]]

\* dwfl_context::find_parent: the parent of the DIE, 0 (no_off) for the root
\* of a unit.
FindParent(f, die) == f.parent[die]

RECURSIVE ParentDie(_, _, _)
\* op_parent_die::do_operate: Null where it returns nullptr.
ParentDie(f, a, cooked) ==
  LET par_die == FindParent(f, a.die)
  IN IF par_die = 0 THEN Null
     ELSE IF cooked /\ f.tag[par_die] = "partial_unit" /\ a.import # <<>>
       THEN ParentDie(f, GetImport(a), cooked)
     ELSE ValueDie(par_die, <<>>)

RECURSIVE CuDie(_, _)
\* dwpp_cudie: the root DIE of the unit of die.
CuDie(f, die) == IF f.parent[die] = 0 THEN die ELSE CuDie(f, f.parent[die])

\* op_root_die::do_operate.
RootDie(f, a, cooked) ==
  LET b == IF cooked /\ a.import # <<>> THEN ValueDie(a.import[1], <<>>) ELSE a
  IN ValueDie(CuDie(f, b.die), <<>>)

\* entry on the compile unit, or child on one of its DIEs, followed by a
\* chain of parent words on one of the DIEs yielded, and root on the same DIE.
ParentInit ==
  /\ StackIdle
  /\ \E f \in Dwarfs, c \in BOOLEAN, w \in {<<"all", 1>>, <<"child", 1>>, <<"child", 5>>} :
       /\ cfg = [kind |-> "parent", f |-> f, cooked |-> c]
       /\ prod = NewDieProducer(f, w[1], w[2], c)
  /\ op = [walk |-> <<>>, ended |-> FALSE, root |-> NotAsked]
  /\ input = Null
  /\ out = <<>> /\ phase = "new" /\ drains = FALSE
  /\ elems = <<>>

DieStep ==
  /\ cfg.kind = "parent" /\ ~prod.done /\ op.walk = <<>>
  /\ ProducerStep(DieProducerNext(prod))

\* The DIE yielded last goes to parent and root.
WalkStart ==
  /\ cfg.kind = "parent" /\ op.walk = <<>> /\ elems # <<>>
  /\ op' = [op EXCEPT !.walk = <<elems[Len(elems)].val>>]
  /\ UNCHANGED <<cfg, input, out, phase, drains, stackVars, elemVars>>

ParentOperateWith(r) ==
  /\ op' = IF r = Null THEN [op EXCEPT !.ended = TRUE]
           ELSE [op EXCEPT !.walk = Append(@, r)]
  /\ UNCHANGED <<cfg, input, out, phase, drains, stackVars, elemVars>>

\* parent on the DIE that the parent before it yielded.
ParentOperate ==
  /\ cfg.kind = "parent" /\ op.walk # <<>> /\ ~op.ended
  /\ ParentOperateWith(ParentDie(cfg.f, op.walk[Len(op.walk)], cfg.cooked))

RootOperate ==
  /\ cfg.kind = "parent" /\ op.walk # <<>> /\ op.root = NotAsked
  /\ op' = [op EXCEPT !.root = RootDie(cfg.f, op.walk[1], cfg.cooked)]
  /\ UNCHANGED <<cfg, input, out, phase, drains, stackVars, elemVars>>

SpecParent == ParentInit /\ [][DieStep \/ WalkStart \/ ParentOperate \/ RootOperate]_vars

\* C36: for a cooked DIE that entry or child yielded through imports, at any
\* depth inside the imported partial unit, the repeated parent never yields
\* the root DIE of a partial unit, and it ends at the root DIE of the
\* importing unit, which is the DIE that root yields.
C36_ParentAcrossImports ==
  (cfg.kind = "parent" /\ cfg.cooked /\ op.walk # <<>> /\ op.walk[1].import # <<>>) =>
    /\ \A i \in 2..Len(op.walk) : cfg.f.tag[op.walk[i].die] # "partial_unit"
    /\ op.ended =>
         /\ op.walk[Len(op.walk)].die = CuDie(cfg.f, op.walk[1].import[1])
         /\ op.root # NotAsked => op.root.die = op.walk[Len(op.walk)].die

\* ------------------------------------------------------------ Merge inside Merge

\* Most stacks of the upstream of the outer op_merge.
MaxStacks == 3

\* next () never returns: the loop of op_merge::next is back in a state it
\* was in.
Hang == [hangs |-> TRUE]

\* op_merge over the branches of shape: "const" is op_const on its op_tine,
\* "merge" a second op_merge over two op_const branches, whose tines have the
\* op_tine of the branch as their upstream. inner [k] holds the file, the
\* flag and the position of the op_merge of branch k.
NewMergeOfMerges(shape, q) ==
  [up |-> NewFeed(q),
   m_file |-> [k \in DOMAIN shape |-> Null],
   m_done |-> FALSE,
   m_it |-> 1,
   shape |-> shape,
   inner |-> [k \in DOMAIN shape |->
                [m_file |-> <<Null, Null>>, m_done |-> FALSE, m_it |-> 1]]]

\* op_const::next on what its upstream returned, pushing v.
ConstNext(r, v) ==
  IF r.ret = Null \/ r.ret = Hang THEN r
  ELSE [st |-> r.st, ret |-> [r.ret EXCEPT !.vals = Append(@, v)]]

\* op_tine::next of peer j of the op_merge that is branch k of the outer one.
InnerTineNext(o, k, j) ==
  IF o.inner[k].m_done
    THEN [st |-> o, ret |-> Null]
    ELSE IF \A i \in DOMAIN o.inner[k].m_file : o.inner[k].m_file[i] = Null
      THEN LET u == TineNext(o, k)
           IN IF u.ret # Null
                THEN [st |-> [u.st EXCEPT !.inner[k].m_file =
                                [[i \in DOMAIN @ |-> u.ret] EXCEPT ![j] = Null]],
                      ret |-> u.ret]
                ELSE [st |-> [u.st EXCEPT !.inner[k].m_done = TRUE], ret |-> Null]
      ELSE [st |-> [o EXCEPT !.inner[k].m_file[j] = Null],
            ret |-> o.inner[k].m_file[j]]

RECURSIVE InnerMergeLoop(_, _, _)
\* The while loop of op_merge::next of branch k; its branches push 10 k + 1
\* and 10 k + 2.
InnerMergeLoop(o, k, seen) ==
  IF o.inner[k].m_done THEN [st |-> o, ret |-> Null]
  ELSE IF o \in seen THEN [st |-> o, ret |-> Hang]
  ELSE LET r == ConstNext(InnerTineNext(o, k, o.inner[k].m_it),
                          10 * k + o.inner[k].m_it)
       IN IF r.ret # Null THEN r
          ELSE InnerMergeLoop([r.st EXCEPT !.inner[k].m_it = IF @ = 2 THEN 1 ELSE @ + 1],
                              k, seen \cup {o})

InnerMergeNext(o, k) ==
  IF o.inner[k].m_done THEN [st |-> o, ret |-> Null] ELSE InnerMergeLoop(o, k, {})

\* (*m_it)->next () of the outer op_merge; its op_const branch k pushes k.
BranchOfMergeNext(o, k) ==
  IF o.shape[k] = "merge" THEN InnerMergeNext(o, k) ELSE ConstNext(TineNext(o, k), k)

RECURSIVE OuterMergeLoop(_, _)
\* The while loop of op_merge::next of the outer op_merge.
OuterMergeLoop(o, seen) ==
  IF o.m_done THEN [st |-> o, ret |-> Null]
  ELSE IF o \in seen THEN [st |-> o, ret |-> Hang]
  ELSE LET r == BranchOfMergeNext(o, o.m_it)
       IN IF r.ret # Null THEN r
          ELSE OuterMergeLoop([r.st EXCEPT !.m_it = IF @ = Len(o.shape) THEN 1 ELSE @ + 1],
                              seen \cup {o})

\* op_merge::next of the outer op_merge.
OuterMergeNext(o) ==
  IF o.m_done THEN [st |-> o, ret |-> Null] ELSE OuterMergeLoop(o, {})

\* The upstream yields the stacks (1), .., (n).
MergesInit ==
  /\ StackIdle
  /\ \E K \in 2..MaxPeers, n \in 0..MaxStacks :
       \E shape \in [1..K -> {"const", "merge"}] :
         /\ cfg = [kind |-> "merges", shape |-> shape, n |-> n]
         /\ op = NewMergeOfMerges(shape, [s \in 1..n |-> [vals |-> <<s>>]])
  /\ input = Null
  /\ out = <<>> /\ phase = "run" /\ drains = FALSE
  /\ prod = Null /\ elems = <<>>

\* What next () returned before.
Returned(r) == \E i \in DOMAIN out : out[i] = r

MergesTake(r) ==
  /\ op' = r.st
  /\ out' = Append(out, r.ret)
  /\ phase' = IF r.ret = Hang THEN "hang" ELSE IF r.ret = Null THEN "drained" ELSE phase
  /\ UNCHANGED <<cfg, input, drains, stackVars, elemVars>>

\* The consumer calls next () again, also after it returned null.
MergesPull ==
  /\ cfg.kind = "merges" /\ phase # "hang"
  /\ ~(Returned(Null) /\ out[Len(out)] = Null /\ Len(out) > 1 /\ out[Len(out) - 1] = Null)
  /\ MergesTake(OuterMergeNext(op))

SpecMerges == MergesInit /\ [][MergesPull]_vars

\* The consumer goes on calling next ().
SpecMergesLive == SpecMerges /\ WF_vars(MergesPull)

\* What the op_const operators at the leaves of shape push.
LeafIds(shape) ==
  UNION {IF shape[k] = "merge" THEN {10 * k + 1, 10 * k + 2} ELSE {k} : k \in DOMAIN shape}

\* The stacks next () returned up to its first null.
Emitted ==
  LET first == IF Returned(Null) THEN CHOOSE i \in DOMAIN out :
                                       out[i] = Null /\ \A j \in 1..(i - 1) : out[j] # Null
               ELSE Len(out) + 1
  IN SubSeq(out, 1, first - 1)

\* C37: with an upstream of finitely many stacks and branches of finitely
\* many results each, next () of Merge returns null after finitely many
\* calls, having emitted for every upstream stack the results of every
\* branch exactly once; no call loops for ever, and after the null every
\* call returns null.
C37_MergeEnds ==
  /\ <>(phase = "drained")
  /\ [](/\ phase # "hang"
        /\ phase = "drained" =>
             /\ {Emitted[i] : i \in DOMAIN Emitted}
                  = {[vals |-> <<s, v>>] : s \in 1..cfg.n, v \in LeafIds(cfg.shape)}
             /\ Len(Emitted) = cfg.n * Cardinality(LeafIds(cfg.shape))
             /\ \A i \in (Len(Emitted) + 1)..Len(out) : out[i] = Null)

\* ------------------------------------------------------------ TrClosure ends

\* C38: the enumeration of TrClosure for an input ends, also when inner is
\* cyclic: every call of next () returns after finitely many turns of its
\* loops, and after finitely many calls next () returns null, the worklist
\* empty and the inner operator drained.
C38_TrClosureEnds ==
  /\ (phase = "run") ~> (phase = "drained" /\ op.m_stks = <<>> /\ op.m_op_drained)
  /\ [](phase = "run" => TrTurns(op, MaxSteps) < MaxSteps)

C38_Witness ==
  /\ cfg.kind = "closure" /\ cfg.gs[1] \in {"cycle", "loop"}
  /\ phase = "drained" /\ Len(out) > 1
  /\ op.m_stks = <<>> /\ op.m_op_drained

\* ------------------------------------------------------------ one order

\* Not asked yet.
NoAnswer == "none"

\* The programs A B ?eq, A B ?lt, A B ?gt and [A] [B] ?eq, [A] [B] ?lt,
\* [A] [B] ?gt on two values A and B.
OrderInit ==
  /\ StackIdle
  /\ \E a \in PredValues, b \in PredValues : cfg = [kind |-> "order", a |-> a, b |-> b]
  /\ op = [plain |-> [k \in Leaves |-> NoAnswer], seq |-> [k \in Leaves |-> NoAnswer]]
  /\ input = Null
  /\ out = <<>> /\ phase = "new" /\ drains = FALSE
  /\ prod = Null /\ elems = <<>>

\* A B ?k.
PlainCompare ==
  /\ cfg.kind = "order"
  /\ \E k \in Leaves :
       /\ op.plain[k] = NoAnswer
       /\ op' = [op EXCEPT !.plain[k] =
                   ComparisonResult(StackOf(<<cfg.a, cfg.b>>), WantOf(k)).res]
  /\ UNCHANGED <<cfg, input, out, phase, drains, stackVars, elemVars>>

\* [A] [B] ?k.
SeqCompare ==
  /\ cfg.kind = "order"
  /\ \E k \in Leaves :
       /\ op.seq[k] = NoAnswer
       /\ op' = [op EXCEPT !.seq[k] =
                   ComparisonResult(StackOf(<<SeqValue(<<cfg.a>>, 0), SeqValue(<<cfg.b>>, 0)>>),
                                    WantOf(k)).res]
  /\ UNCHANGED <<cfg, input, out, phase, drains, stackVars, elemVars>>

SpecOrder == OrderInit /\ [][PlainCompare \/ SeqCompare]_vars

\* The three words were asked, none failed, and exactly one holds.
ExactlyOne(ans) ==
  (\A k \in Leaves : ans[k] \in {"yes", "no"}) =>
    Cardinality({k \in Leaves : ans[k] = "yes"}) = 1

\* C40: the order of values is the same wherever it is computed: for A and
\* B of different variants, A B ?lt holds iff [A] [B] ?lt holds, and of ?lt,
\* ?eq and ?gt exactly one holds on two values that cmp does not fail on.
C40_OneOrder ==
  cfg.kind = "order" =>
    /\ (cfg.a.type # cfg.b.type /\ op.plain["lt"] # NoAnswer /\ op.seq["lt"] # NoAnswer) =>
         (op.plain["lt"] = "yes" <=> op.seq["lt"] = "yes")
    /\ ExactlyOne(op.plain)
    /\ ExactlyOne(op.seq)

====
